---- MODULE Spec2Model ----
(***************************************************************************)
(* The interactive console of the Accord peer-to-peer client: the session  *)
(* state (app.rs), the prompt/history machine and key handler (events.rs), *)
(* the command dispatcher (commands.rs), the render-time scroll clamp      *)
(* (ui.rs) and the event loop (main.rs).                                   *)
(*                                                                         *)
(* Text.  A Rust String is a sequence of characters.  Here a text is a     *)
(* sequence of symbols: "/", " ", the decimal digits, and words (a run of  *)
(* letters typed as one symbol, e.g. "port" or "bob").  push, pop, trim,   *)
(* find(' '), splitn and parse::<u16> are computed on that sequence as the *)
(* code computes them on characters.  A log or view line is a text too.    *)
(*                                                                         *)
(* Option<T>.  None is the empty sequence, Some(x) is <<x>>.               *)
(*                                                                         *)
(* The node and the persistence store are external collaborators           *)
(* (accord_network).  Every result they can hand back is a                 *)
(* nondeterministic choice (the oracle o of a command); what they are      *)
(* sent is recorded in net, what the store holds in fs.                    *)
(***************************************************************************)
EXTENDS Integers, Sequences, FiniteSets, TLC

VARIABLES
    app,      \* the App struct (app.rs:19-47)
    fs,       \* the persistence store (accord_network::storage::fs)
    net,      \* the node instances started so far: channel state, commands received
    pc,       \* where main/run stands: boot, loop, stalled, done, failed
    last,     \* the last command handed to commands::execute, and how it ended
    ncmds,    \* how many lines the prompt has handed to the dispatcher
    session   \* which lines the operator types in this session (input domain)

vars == <<app, fs, net, pc, last, ncmds, session>>

----------------------------------------------------------------------------
(* Bounds of the exploration.                                              *)

\* Commands the operator submits in one session.
MaxCmds == 2
\* Commands submitted in the connection-cache session.
MaxCmdsConn == 4
\* Commands submitted in the accept session.
MaxCmdsAccept == 3
\* Commands submitted in the display-name session.
MaxCmdsNick == 3
\* Symbols of a free-typed prompt line (session "prompt").
MaxInput == 2
\* Height of the content area, borders included, at most.
MaxHeight == 5
\* PageDown is followed while content_scroll is below MaxPages * ScrollStep,
\* and again within that distance of the top of the u16 range.
MaxPages == 1
\* Lines of the view the paging session starts with, at most.
MaxView == 6
\* The paging session starts with content_scroll at most this far from an
\* end of the u16 range.
MaxScrollInit == 12

----------------------------------------------------------------------------
(* Option, text and the std string functions the code calls.               *)

None == <<>>
Some(x) == <<x>>
IsSome(o) == o # <<>>
Unwrap(o) == o[1]

U16Max == 65535
ScrollStep == 10
DefaultPort == 51030

Min(a, b) == IF a < b THEN a ELSE b
Max(a, b) == IF a > b THEN a ELSE b

\* u16::saturating_sub / saturating_add
saturating_sub(a, b) == IF a < b THEN 0 ELSE a - b
saturating_add(a, b) == IF a + b > U16Max THEN U16Max ELSE a + b
\* `x as u16` of a usize
as_u16(n) == n % (U16Max + 1)

IsPrefix(p, s) == Len(p) <= Len(s) /\ SubSeq(s, 1, Len(p)) = p

\* str::trim_start, str::trim_end, str::trim: the only whitespace is " ".
RECURSIVE trim_start(_)
trim_start(s) ==
    IF s # <<>> /\ Head(s) = " " THEN trim_start(Tail(s)) ELSE s

RECURSIVE trim_end(_)
trim_end(s) ==
    IF s # <<>> /\ s[Len(s)] = " " THEN trim_end(SubSeq(s, 1, Len(s) - 1)) ELSE s

trim(s) == trim_end(trim_start(s))

\* str::find(' '): Some(1-based index of the first space) or None.
find_space(s) ==
    IF \E i \in 1..Len(s) : s[i] = " "
    THEN Some(CHOOSE i \in 1..Len(s) : s[i] = " " /\ \A j \in 1..(i - 1) : s[j] # " ")
    ELSE None

\* str::splitn(n, ' ').collect(): at most n parts, the last holds the rest.
RECURSIVE splitn(_, _)
splitn(n, s) ==
    IF n <= 1 \/ find_space(s) = None
    THEN <<s>>
    ELSE LET i == Unwrap(find_space(s))
         IN  <<SubSeq(s, 1, i - 1)>> \o splitn(n - 1, SubSeq(s, i + 1, Len(s)))

\* ASCII lower-casing of a symbol; words of the model that hold capitals.
LowerOf == [w \in {"BOB", "ME"} |-> IF w = "BOB" THEN "bob" ELSE "me"]
to_ascii_lowercase(s) ==
    [i \in 1..Len(s) |-> IF s[i] \in DOMAIN LowerOf THEN LowerOf[s[i]] ELSE s[i]]
eq_ignore_ascii_case(a, b) == to_ascii_lowercase(a) = to_ascii_lowercase(b)

\* Decimal digits, and <u16 as FromStr>::from_str: an optional "+", then one
\* or more digits, the value at most u16::MAX; anything else is an error (None).
DigitVal == [d \in {"0", "1", "2", "3", "4", "5", "6", "7", "8", "9"} |->
    CASE d = "0" -> 0 [] d = "1" -> 1 [] d = "2" -> 2 [] d = "3" -> 3 [] d = "4" -> 4
      [] d = "5" -> 5 [] d = "6" -> 6 [] d = "7" -> 7 [] d = "8" -> 8 [] d = "9" -> 9]

RECURSIVE DecimalValue(_, _)
DecimalValue(s, acc) ==
    IF s = <<>> THEN acc ELSE DecimalValue(Tail(s), acc * 10 + DigitVal[Head(s)])

parse_u16(s) ==
    LET digits == IF s # <<>> /\ Head(s) = "+" THEN Tail(s) ELSE s
    IN  IF digits = <<>> \/ \E i \in 1..Len(digits) : digits[i] \notin DOMAIN DigitVal
        THEN None
        ELSE IF DecimalValue(digits, 0) > U16Max THEN None
             ELSE Some(DecimalValue(digits, 0))

\* format!("{}", n) of an integer, as one symbol.
Num(n) == ToString(n)

----------------------------------------------------------------------------
(* app.rs: NodeStatus and App.                                             *)

Stopped == [tag |-> "Stopped", addr |-> <<>>]
Running(addr) == [tag |-> "Running", addr |-> addr]

Welcome == << <<"Welcome to Accord!">>,
              <<"Starting the P2P node">>,
              <<"Type /help to see all available commands.">> >>

\* App::new()
AppNew ==
    [ content_scroll     |-> 0,
      content_lines      |-> Welcome,
      content_title      |-> <<" Accord ">>,
      prompt_input       |-> <<>>,
      prompt_history     |-> <<>>,
      prompt_history_idx |-> None,
      node_tx            |-> None,
      node_status        |-> Stopped,
      listen_port        |-> DefaultPort,
      peers              |-> <<>>,
      users              |-> <<>>,
      connections        |-> <<>>,
      messages           |-> <<>>,
      events             |-> Welcome,
      output             |-> <<>>,
      should_quit        |-> FALSE ]

\* App::set_content
set_content(a, title, lines) ==
    [a EXCEPT !.content_title = <<" ">> \o title \o <<" ">>,
              !.content_lines = lines,
              !.content_scroll = 0]

\* App::push_event
push_event(a, line) == [a EXCEPT !.events = Append(@, line)]

\* App::push_output
push_output(a, line) == [a EXCEPT !.output = Append(@, line)]

\* commands.rs: show_lines
show_lines(a, title, lines) == set_content(a, title, lines)

\* commands.rs: listen_addr
listen_addr(port) == <<"/ip4/0.0.0.0/tcp/", Num(port)>>

\* commands.rs: split_command: (name, rest) at the first space.
split_command(input) ==
    IF find_space(input) = None
    THEN <<input, <<>>>>
    ELSE LET idx == Unwrap(find_space(input))
         IN  <<SubSeq(input, 1, idx - 1), trim_start(SubSeq(input, idx + 1, Len(input)))>>

\* commands.rs: truncate_id
truncate_id(id, max) ==
    IF Len(id) <= max THEN id ELSE SubSeq(id, 1, max) \o <<"...">>

----------------------------------------------------------------------------
(* The world a command runs in, and what a command returns.                *)
(* w = [app, fs, net]; a command returns the world it leaves and its       *)
(* anyhow::Result: res is "Ok", "Err" (err holds the message) or "Stalled" *)
(* (an await that never completes: the future never returns).  kind says   *)
(* which way the command went and val holds the value a successful node    *)
(* reply carried, for the record kept in last.                             *)

World(a, f, n) == [app |-> a, fs |-> f, net |-> n]
WithApp(w, a) == [w EXCEPT !.app = a]

Ok(w, kind) == [w |-> w, res |-> "Ok", err |-> <<>>, kind |-> kind, val |-> None]
Err(w, e, kind) == [w |-> w, res |-> "Err", err |-> e, kind |-> kind, val |-> None]
Stall(w) == [w |-> w, res |-> "Stalled", err |-> <<>>, kind |-> "never", val |-> None]
\* Ok after a reply that carried the value v.
OkReply(w, v) == [w |-> w, res |-> "Ok", err |-> <<>>, kind |-> "ok", val |-> Some(v)]

----------------------------------------------------------------------------
(* The persistence store (accord_network::storage::fs), as the dispatcher  *)
(* uses it.  fs.local: Option<User>; fs.known: the known remote users in   *)
(* listing order; fs.conns: the stored connections in listing order;       *)
(* fs.peers: Option<list of addresses>.  o.io = "read" makes the reads of  *)
(* this command fail, o.io = "write" the write.                            *)

\* Length of a stored user id (a hash): longer than the least of truncate_id's limits.
IdLen == 9

\* An id made of one repeated symbol.
LongId(c) == [i \in 1..IdLen |-> c]

User(id, name, local) ==
    [id |-> id, public_key |-> <<"pk-">> \o id, name |-> name, local |-> local]

Connection(from, to, est, key) ==
    [from_id |-> from, to_id |-> to, established |-> est, public_key |-> key]

load_local_user(f, o) == IF o.io = "read" THEN None ELSE f.local

list_known_users(f, o) ==
    IF o.io = "read" THEN None ELSE Some([i \in 1..Len(f.known) |-> f.known[i].id])

load_known_user(f, id, o) ==
    IF o.io # "read" /\ \E i \in 1..Len(f.known) : f.known[i].id = id
    THEN Some(f.known[CHOOSE i \in 1..Len(f.known) : f.known[i].id = id])
    ELSE None

\* Ok: the store holds the user; Err: the store is unchanged.
save_local_user(f, user, o) ==
    IF o.io = "write" THEN [ok |-> FALSE, fs |-> f]
    ELSE [ok |-> TRUE, fs |-> [f EXCEPT !.local = Some(user)]]

load_peers(f, o) == IF o.io = "read" THEN None ELSE f.peers

list_connections(f, o) ==
    IF o.io = "read" THEN None ELSE Some([i \in 1..Len(f.conns) |-> f.conns[i].to_id])

load_connection(f, from, to, o) ==
    IF o.io # "read"
       /\ \E i \in 1..Len(f.conns) : f.conns[i].from_id = from /\ f.conns[i].to_id = to
    THEN Some(f.conns[CHOOSE i \in 1..Len(f.conns) :
                         f.conns[i].from_id = from /\ f.conns[i].to_id = to])
    ELSE None

\* Result::unwrap_or_default for a list.
unwrap_or_default(r) == IF r = None THEN <<>> ELSE Unwrap(r)

\* Option<String>::is_some_and(|n| n.eq_ignore_ascii_case(nick))
NameIs(name, nick) == IsSome(name) /\ eq_ignore_ascii_case(Unwrap(name), nick)

\* A variant of resolve_nick that takes a nick nobody bears for an id.
resolve_nick_or_raw(f, nick, o) ==
    LET local == load_local_user(f, o)
        ids   == unwrap_or_default(list_known_users(f, o))
        hit(i) == /\ load_known_user(f, ids[i], o) # None
                  /\ NameIs(Unwrap(load_known_user(f, ids[i], o)).name, nick)
    IN  IF IsSome(local) /\ NameIs(Unwrap(local).name, nick)
        THEN Some(Unwrap(local).id)
        ELSE IF \E i \in 1..Len(ids) : hit(i)
             THEN Some(ids[CHOOSE i \in 1..Len(ids) : hit(i) /\ \A j \in 1..(i - 1) : ~hit(j)])
             ELSE Some(nick)

\* commands.rs: resolve_nick: the local user first, then the known users in order.
resolve_nick(f, nick, o) ==
    LET local == load_local_user(f, o)
        ids   == unwrap_or_default(list_known_users(f, o))
        hit(i) == /\ load_known_user(f, ids[i], o) # None
                  /\ NameIs(Unwrap(load_known_user(f, ids[i], o)).name, nick)
    IN  IF IsSome(local) /\ NameIs(Unwrap(local).name, nick)
        THEN Some(Unwrap(local).id)
        ELSE IF \E i \in 1..Len(ids) : hit(i)
             THEN Some(ids[CHOOSE i \in 1..Len(ids) : hit(i) /\ \A j \in 1..(i - 1) : ~hit(j)])
             ELSE None

----------------------------------------------------------------------------
(* The node (accord_network::FullNode) behind its command channel.         *)
(* net[i] is the i-th node started: open says whether its receiver still   *)
(* lives, sent lists the commands its channel accepted.  A sender          *)
(* (mpsc::Sender) is the index i.  The node answers as o says:             *)
(* o.reply = "Ok" (the reply slot carries Ok(value)), "Err" (it carries    *)
(* Err(e)), "Dropped" (the slot is dropped without a value) or "Never".    *)

NodeError == <<"node error">>

\* mpsc::Sender::send: fails iff the receiver is gone.
ChannelSend(n, tx, cmd) ==
    IF n[tx].open
    THEN [ok |-> TRUE, net |-> [n EXCEPT ![tx].sent = Append(@, cmd)]]
    ELSE [ok |-> FALSE, net |-> n]

\* tx.send(cmd).await.map_err(..)? ; reply_rx.await? : st is how the exchange ended.
Exchange(w, tx, cmd, o) ==
    LET s == ChannelSend(w.net, tx, cmd)
    IN  [w  |-> [w EXCEPT !.net = s.net],
         st |-> IF ~s.ok THEN "closed"
                ELSE CASE o.reply = "Ok"      -> "ok"
                       [] o.reply = "Err"     -> "err"
                       [] o.reply = "Dropped" -> "dropped"
                       [] OTHER               -> "never"]

\* The three ways an exchange ends without a reply value.
NoReply(x) == x.st \in {"closed", "dropped", "never"}

\* A variant of ExchangeFailure that drops the handle of a node whose channel
\* is closed.
ExchangeFailure_handle_dropped(x) ==
    CASE x.st = "closed"  ->
           Err([x.w EXCEPT !.app.node_tx = None, !.app.node_status = Stopped],
               <<"Node channel closed">>, "closed")
      [] x.st = "dropped" -> Err(x.w, <<"channel closed">>, "dropped")
      [] OTHER            -> Stall(x.w)

ExchangeFailure(x) ==
    CASE x.st = "closed"  -> Err(x.w, <<"Node channel closed">>, "closed")
      [] x.st = "dropped" -> Err(x.w, <<"channel closed">>, "dropped")
      [] OTHER            -> Stall(x.w)

\* Total number of commands the console has submitted to any node.
RECURSIVE Submitted(_)
Submitted(n) == IF n = <<>> THEN 0 ELSE Len(Head(n).sent) + Submitted(Tail(n))

----------------------------------------------------------------------------
(* commands.rs: the commands.  Each takes the world (and the rest of the   *)
(* line, and the oracle when it meets a collaborator) and returns a        *)
(* result record.                                                          *)

\* The 25 lines of the static command reference.
HelpLines == [i \in 1..25 |-> <<"help line ", Num(i)>>]

cmd_help(w) ==
    Ok(WithApp(w, set_content(push_event(w.app, <<"[CMD] /help">>), <<"Help">>, HelpLines)),
       "ok")

\* A variant of cmd_quit that logs the request and leaves should_quit alone.
cmd_quit_logged_only(w) ==
    Ok(WithApp(w, push_event(w.app, <<"[APP] Quit requested.">>)), "ok")

cmd_quit(w) ==
    Ok(WithApp(w, [push_event(w.app, <<"[APP] Quit requested.">>) EXCEPT !.should_quit = TRUE]),
       "ok")

EventsMarker == <<"[CMD] /events - showing events.">>

cmd_events(w) ==
    LET lines == w.app.events
        a1    == push_event(w.app, EventsMarker)
        lines_with_fresh == Append(a1.events, EventsMarker)
        a2    == set_content(a1, <<"Events">>, lines_with_fresh)
    IN  Ok(WithApp(w, [a2 EXCEPT !.content_scroll = as_u16(Len(lines))]), "ok")

cmd_console(w) ==
    LET a1 == push_output(w.app, <<"[CMD] /console - showing output log.">>)
        a2 == set_content(a1, <<"Console">>, a1.output)
    IN  Ok(WithApp(w, [a2 EXCEPT !.content_scroll = as_u16(Len(a1.output))]), "ok")

cmd_messages(w) ==
    LET a1 == push_event(w.app, <<"[CMD] /messages - showing messages.">>)
        head == << <<"Messages  (", Num(Len(a1.messages)), ")">>, <<>> >>
        lines == IF a1.messages = <<>>
                 THEN Append(head, <<"  No messages yet. Use /message <nick> <body> to send one.">>)
                 ELSE head \o a1.messages
    IN  Ok(WithApp(w, set_content(a1, <<"Messages">>, lines)), "ok")

NotRunningLine == <<"Node is not running. Use /startNode first.">>

\* A variant of cmd_start_node that logs the refusal when a node is running.
cmd_start_node_logs_refusal(w, o) ==
    IF IsSome(w.app.node_tx)
    THEN Ok(WithApp(w, show_lines(push_output(w.app, <<"Node is already running.">>),
                                  <<"Node">>, << <<"Node is already running.">> >>)),
            "already")
    ELSE
      LET addr_str == listen_addr(w.app.listen_port)
          msg == <<"Starting node on ">> \o addr_str
          a1  == push_output(push_event(w.app, <<"[NODE] ">> \o msg), msg)
      IN  IF o.start = "ok"
          THEN LET n1 == Append(w.net, [open |-> TRUE, sent |-> <<>>])
                   a2 == [a1 EXCEPT !.node_tx = Some(Len(n1)),
                                    !.node_status = Running(addr_str)]
                   ok == <<"Node started on ">> \o addr_str \o <<".">>
                   a3 == push_output(push_event(a2, <<"[NODE] ">> \o ok), ok)
               IN  Ok([w EXCEPT !.app = show_lines(a3, <<"Node">>, <<ok>>), !.net = n1],
                      "started")
          ELSE LET err == <<"Failed to start node: ">> \o NodeError
                   a2  == push_output(push_event(a1, <<"[NODE] Start failed: ">> \o NodeError), err)
               IN  Ok(WithApp(w, show_lines(a2, <<"Node">>, <<err>>)), "start_failed")

\* cmd_start_node.  listen_addr(port) is a well-formed multiaddr for every u16
\* port, so addr_str.parse() does not fail; FullNode::run() answers o.start.
cmd_start_node(w, o) ==
    IF IsSome(w.app.node_tx)
    THEN Ok(WithApp(w, show_lines(w.app, <<"Node">>, << <<"Node is already running.">> >>)),
            "already")
    ELSE
      LET addr_str == listen_addr(w.app.listen_port)
          msg == <<"Starting node on ">> \o addr_str
          a1  == push_output(push_event(w.app, <<"[NODE] ">> \o msg), msg)
      IN  IF o.start = "ok"
          THEN LET n1 == Append(w.net, [open |-> TRUE, sent |-> <<>>])
                   a2 == [a1 EXCEPT !.node_tx = Some(Len(n1)),
                                    !.node_status = Running(addr_str)]
                   ok == <<"Node started on ">> \o addr_str \o <<".">>
                   a3 == push_output(push_event(a2, <<"[NODE] ">> \o ok), ok)
               IN  Ok([w EXCEPT !.app = show_lines(a3, <<"Node">>, <<ok>>), !.net = n1],
                      "started")
          ELSE LET err == <<"Failed to start node: ">> \o NodeError
                   a2  == push_output(push_event(a1, <<"[NODE] Start failed: ">> \o NodeError), err)
               IN  Ok(WithApp(w, show_lines(a2, <<"Node">>, <<err>>)), "start_failed")

\* A variant of cmd_stop_node that gives up, handle kept, when the Shutdown
\* cannot be submitted.
cmd_stop_node_send_checked(w) ==
    IF IsSome(w.app.node_tx)
    THEN LET s  == ChannelSend(w.net, Unwrap(w.app.node_tx), [tag |-> "Shutdown"])
             a1 == [w.app EXCEPT !.node_tx = None, !.node_status = Stopped]
             a2 == push_output(push_event(a1, <<"[NODE] Stopped.">>), <<"Node stopped.">>)
         IN  IF s.ok
             THEN Ok([w EXCEPT !.app = show_lines(a2, <<"Node">>, << <<"Node stopped.">> >>),
                               !.net = s.net],
                     "stopped")
             ELSE Err(w, <<"Node channel closed">>, "closed")
    ELSE Ok(WithApp(w, show_lines(w.app, <<"Node">>, << <<"Node is not running.">> >>)),
            "no_node")

\* A variant of cmd_stop_node that takes the sender and leaves node_status
\* as it was.
cmd_stop_node_status_kept(w) ==
    LET taken == w.app.node_tx
        a0    == [w.app EXCEPT !.node_tx = None]
    IN  IF IsSome(taken)
        THEN LET s  == ChannelSend(w.net, Unwrap(taken), [tag |-> "Shutdown"])
                 a2 == push_output(push_event(a0, <<"[NODE] Stopped.">>), <<"Node stopped.">>)
             IN  Ok([w EXCEPT !.app = show_lines(a2, <<"Node">>, << <<"Node stopped.">> >>),
                              !.net = s.net],
                    "stopped")
        ELSE Ok(WithApp(w, show_lines(a0, <<"Node">>, << <<"Node is not running.">> >>)),
                "no_node")

\* A variant of cmd_stop_node that sends Shutdown through the handle and
\* leaves the handle in place.
cmd_stop_node_handle_kept(w) ==
    IF IsSome(w.app.node_tx)
    THEN LET s  == ChannelSend(w.net, Unwrap(w.app.node_tx), [tag |-> "Shutdown"])
             a1 == [w.app EXCEPT !.node_status = Stopped]
             a2 == push_output(push_event(a1, <<"[NODE] Stopped.">>), <<"Node stopped.">>)
         IN  Ok([w EXCEPT !.app = show_lines(a2, <<"Node">>, << <<"Node stopped.">> >>),
                          !.net = s.net],
                "stopped")
    ELSE Ok(WithApp(w, show_lines(w.app, <<"Node">>, << <<"Node is not running.">> >>)),
            "no_node")

\* cmd_stop_node: node_tx.take(), then the match on what it held.
cmd_stop_node(w) ==
    LET taken == w.app.node_tx
        a0    == [w.app EXCEPT !.node_tx = None]
    IN  IF IsSome(taken)
        THEN LET s  == ChannelSend(w.net, Unwrap(taken), [tag |-> "Shutdown"])
                 a1 == [a0 EXCEPT !.node_status = Stopped]
                 a2 == push_output(push_event(a1, <<"[NODE] Stopped.">>), <<"Node stopped.">>)
             IN  Ok([w EXCEPT !.app = show_lines(a2, <<"Node">>, << <<"Node stopped.">> >>),
                              !.net = s.net],
                    "stopped")
        ELSE Ok(WithApp(w, show_lines(a0, <<"Node">>, << <<"Node is not running.">> >>)),
                "no_node")

\* A variant of cmd_restart_node that starts nothing when no node is running.
cmd_restart_node_if_running(w, o) ==
    IF w.app.node_tx = None
    THEN Ok(WithApp(w, show_lines(w.app, <<"Node">>, << <<"Node is not running.">> >>)),
            "no_node")
    ELSE LET w1 == WithApp(w, push_event(w.app, <<"[NODE] Restarting">>))
             r1 == cmd_stop_node(w1)
         IN  cmd_start_node(r1.w, o)

\* cmd_restart_node: stop, sleep 200 ms, start (cmd_stop_node never returns Err).
cmd_restart_node(w, o) ==
    LET w1 == WithApp(w, push_event(w.app, <<"[NODE] Restarting">>))
        r1 == cmd_stop_node(w1)
    IN  cmd_start_node(r1.w, o)

\* A variant of cmd_port without the test for zero.
cmd_port_zero_accepted(w, rest, o) ==
    LET arg == trim(rest)
        parsed == parse_u16(arg)
    IN  IF arg = <<>>
        THEN Ok(WithApp(w, show_lines(w.app, <<"Port">>,
                   << <<"Current port: ", Num(w.app.listen_port), "  |  Usage: /port <port>">> >>)),
                "usage")
        ELSE IF parsed = None
        THEN Err(w, <<"'">> \o arg \o <<"' is not a valid port number (1-65535).">>, "parse_err")
        ELSE
          LET new_port == Unwrap(parsed)
              old_port == w.app.listen_port
              a1 == [w.app EXCEPT !.listen_port = new_port]
              a2 == push_event(a1, <<"[NODE] Port changed: ", Num(old_port), " -> ", Num(new_port)>>)
              a3 == push_output(a2, <<"Port changed to ", Num(new_port), ". Restarting node">>)
          IN  cmd_restart_node(WithApp(w, a3), o)

\* A variant of cmd_port that stores the new port and leaves the node alone.
cmd_port_restart_skipped(w, rest, o) ==
    LET arg == trim(rest)
        parsed == parse_u16(arg)
    IN  IF arg = <<>>
        THEN Ok(WithApp(w, show_lines(w.app, <<"Port">>,
                   << <<"Current port: ", Num(w.app.listen_port), "  |  Usage: /port <port>">> >>)),
                "usage")
        ELSE IF parsed = None
        THEN Err(w, <<"'">> \o arg \o <<"' is not a valid port number (1-65535).">>, "parse_err")
        ELSE IF Unwrap(parsed) = 0
        THEN Ok(WithApp(w, show_lines(w.app, <<"Port">>,
                   << <<"Port must be between 1 and 65535.">> >>)),
                "parse_err")
        ELSE
          LET new_port == Unwrap(parsed)
              old_port == w.app.listen_port
              a1 == [w.app EXCEPT !.listen_port = new_port]
              a2 == push_event(a1, <<"[NODE] Port changed: ", Num(old_port), " -> ", Num(new_port)>>)
          IN  Ok(WithApp(w, push_output(a2, <<"Port changed to ", Num(new_port), ".">>)), "ok")

cmd_port(w, rest, o) ==
    LET arg == trim(rest)
        parsed == parse_u16(arg)
    IN  IF arg = <<>>
        THEN Ok(WithApp(w, show_lines(w.app, <<"Port">>,
                   << <<"Current port: ", Num(w.app.listen_port), "  |  Usage: /port <port>">> >>)),
                "usage")
        ELSE IF parsed = None
        THEN Err(w, <<"'">> \o arg \o <<"' is not a valid port number (1-65535).">>, "parse_err")
        ELSE IF Unwrap(parsed) = 0
        THEN Ok(WithApp(w, show_lines(w.app, <<"Port">>,
                   << <<"Port must be between 1 and 65535.">> >>)),
                "parse_err")
        ELSE
          LET new_port == Unwrap(parsed)
              old_port == w.app.listen_port
              a1 == [w.app EXCEPT !.listen_port = new_port]
              a2 == push_event(a1, <<"[NODE] Port changed: ", Num(old_port), " -> ", Num(new_port)>>)
              a3 == push_output(a2, <<"Port changed to ", Num(new_port), ". Restarting node">>)
          IN  cmd_restart_node(WithApp(w, a3), o)

cmd_sync(w) ==
    IF w.app.node_tx = None
    THEN Ok(WithApp(w, show_lines(w.app, <<"Sync">>, <<NotRunningLine>>)), "no_node")
    ELSE LET msg == <<"Sync is continuous - the node syncs automatically with peers via gossipsub.">>
             a1  == push_output(push_event(w.app, <<"[SYNC] Manual sync requested.">>), msg)
         IN  Ok(WithApp(w, show_lines(a1, <<"Sync">>, <<msg>>)), "ok")

\* cmd_peers.  The result is Ok whether or not the list could be loaded; its
\* kind tells the two apart.
cmd_peers(w, o) ==
    LET peers == unwrap_or_default(load_peers(w.fs, o))
        a1 == [w.app EXCEPT !.peers = peers]
        a2 == push_event(a1, <<"[PEERS] Refreshed (", Num(Len(peers)), " known).">>)
        a3 == push_output(a2, <<"Peers: ", Num(Len(peers)), " known.">>)
        head == << <<"Known peers  (", Num(Len(peers)), ")">>, <<>> >>
        lines == IF peers = <<>>
                 THEN Append(head, <<"  No peers discovered yet. Start the node and wait for mDNS/Kademlia.">>)
                 ELSE head \o [i \in 1..Len(peers) |-> <<"  ", Num(i), ".  ">> \o peers[i]]
    IN  Ok(WithApp(w, set_content(a3, <<"Peers">>, lines)),
           IF load_peers(w.fs, o) = None THEN "load_failed" ELSE "ok")

\* Option<String>::unwrap_or("(unnamed)")
NameOr(name) == IF name = None THEN <<"(unnamed)">> ELSE Unwrap(name)

\* A variant of RenameFirstLocal that leaves the cache as it is.
RenameFirstLocal_cache_kept(users, new_name) == users

\* users.iter_mut().find(|u| u.is_local()): the first local entry gets the name.
RenameFirstLocal(users, new_name) ==
    IF \E i \in 1..Len(users) : users[i].local
    THEN LET k == CHOOSE i \in 1..Len(users) :
                      users[i].local /\ \A j \in 1..(i - 1) : ~users[j].local
         IN  [users EXCEPT ![k].name = Some(new_name)]
    ELSE users

cmd_nick(w, rest, o) ==
    LET new_name == trim(rest)
        loaded   == load_local_user(w.fs, o)
    IN  IF new_name = <<>>
        THEN Ok(WithApp(w, show_lines(w.app, <<"Nick">>, << <<"Usage: /nick <new_name>">> >>)),
                "usage")
        ELSE IF loaded = None
        THEN Ok(WithApp(w, show_lines(w.app, <<"Nick">>,
                   << <<"No local user found. Use /user to create one first.">> >>)),
                "no_local")
        ELSE
          LET old_name == NameOr(Unwrap(loaded).name)
              user  == [Unwrap(loaded) EXCEPT !.name = Some(new_name)]
              saved == save_local_user(w.fs, user, o)
              a1  == [w.app EXCEPT !.users = RenameFirstLocal(@, new_name)]
              msg == <<"Display name changed: ">> \o old_name \o <<" -> ">> \o new_name
              a2  == push_event(a1, <<"[NICK] ">> \o old_name \o <<" -> ">> \o new_name)
              a3  == push_output(a2, msg)
          IN  IF ~saved.ok
              THEN Err(w, <<"store write failed">>, "io_err")
              ELSE Ok([w EXCEPT !.app = show_lines(a3, <<"Nick">>, <<msg>>), !.fs = saved.fs],
                      "ok")

----------------------------------------------------------------------------
(* commands.rs: users.                                                     *)

user_lines(user) ==
    << <<IF user.local THEN "[LOCAL]  " ELSE "[REMOTE]  ">> \o NameOr(user.name),
       <<"  id         : ">> \o user.id,
       <<"  public_key : ">> \o user.public_key >>

cmd_show_user_by_id(w, id, o) ==
    IF w.app.node_tx = None
    THEN Ok(WithApp(w, show_lines(w.app, <<"User">>, <<NotRunningLine>>)), "no_node")
    ELSE
      LET x == Exchange(w, Unwrap(w.app.node_tx), [tag |-> "GetUser", id |-> id], o)
      IN  IF NoReply(x) THEN ExchangeFailure(x)
          ELSE IF x.st = "ok"
          THEN OkReply(WithApp(x.w, set_content(x.w.app, <<"User">>, user_lines(o.user))), o.user)
          ELSE Ok(WithApp(x.w, show_lines(x.w.app, <<"User">>,
                     << <<"User not found: ">> \o NodeError >>)), "reply_err")

\* cmd_user from "// Create user." on: the node is running (tx is held).
create_user(w, arg, o) ==
    LET meta == [display_name |-> IF arg = <<>> THEN None ELSE Some(arg)]
        x == Exchange(w, Unwrap(w.app.node_tx), [tag |-> "CreateUser", meta |-> meta], o)
        user == o.user
        name == NameOr(user.name)
        b1 == push_event(x.w.app, <<"[USER] Created: ">> \o name \o <<" (">>
                                    \o truncate_id(user.id, 16) \o <<")">>)
        b2 == push_output(b1, <<"User created: ">> \o name)
        b3 == IF \E i \in 1..Len(b2.users) : b2.users[i].id = user.id
              THEN b2
              ELSE [b2 EXCEPT !.users = Append(@, user)]
    IN  IF NoReply(x) THEN ExchangeFailure(x)
        ELSE IF x.st = "ok"
        THEN OkReply(WithApp(x.w, set_content(b3, <<"User">>, user_lines(user))), user)
        ELSE Ok(WithApp(x.w, show_lines(
                   push_event(x.w.app, <<"[USER] Create failed: ">> \o NodeError),
                   <<"User">>, << <<"Error creating user: ">> \o NodeError >>)),
                "reply_err")

\* A variant of cmd_user that looks for the stored local user before it
\* looks for the node.
cmd_user_local_first(w, rest, o) ==
    LET arg == trim(rest)
        resolved == IF arg = <<>> THEN None ELSE resolve_nick(w.fs, arg, o)
        loaded == load_local_user(w.fs, o)
    IN  IF IsSome(resolved)
        THEN cmd_show_user_by_id(w, Unwrap(resolved), o)
        ELSE IF arg = <<>> /\ IsSome(loaded)
        THEN Ok(WithApp(w, set_content(w.app, <<"User">>, user_lines(Unwrap(loaded)))), "ok")
        ELSE IF w.app.node_tx = None
        THEN Ok(WithApp(w, show_lines(w.app, <<"User">>, <<NotRunningLine>>)), "no_node")
        ELSE IF arg = <<>>
        THEN create_user(WithApp(w, push_output(w.app, <<"No local user found - creating one">>)),
                         arg, o)
        ELSE create_user(w, arg, o)

cmd_user(w, rest, o) ==
    LET arg == trim(rest)
        resolved == IF arg = <<>> THEN None ELSE resolve_nick(w.fs, arg, o)
        loaded == load_local_user(w.fs, o)
    IN  IF IsSome(resolved)
        THEN cmd_show_user_by_id(w, Unwrap(resolved), o)
        ELSE IF w.app.node_tx = None
        THEN Ok(WithApp(w, show_lines(w.app, <<"User">>, <<NotRunningLine>>)), "no_node")
        ELSE IF arg = <<>> /\ IsSome(loaded)
        THEN Ok(WithApp(w, set_content(w.app, <<"User">>, user_lines(Unwrap(loaded)))), "ok")
        ELSE IF arg = <<>>
        THEN create_user(WithApp(w, push_output(w.app, <<"No local user found - creating one">>)),
                         arg, o)
        ELSE create_user(w, arg, o)

\* A variant of cmd_users that reports the absent node and reads no store.
cmd_users_no_fallback(w, o) ==
    IF w.app.node_tx = None
    THEN Ok(WithApp(w, show_lines(w.app, <<"Users">>, <<NotRunningLine>>)), "no_node")
    ELSE
      LET x == Exchange(w, Unwrap(w.app.node_tx), [tag |-> "GetUsers"], o)
          users == o.users
          a1 == [x.w.app EXCEPT !.users = users]
          a2 == push_event(a1, <<"[USERS] Refreshed (", Num(Len(users)), " found).">>)
          a3 == push_output(a2, <<"Users: ", Num(Len(users)), " found.">>)
          head == << <<"Known users  (", Num(Len(users)), ")">>, <<>> >>
          lines == IF users = <<>>
                   THEN Append(head, <<"  No remote users discovered yet.">>)
                   ELSE head \o [i \in 1..Len(users) |->
                           <<IF users[i].local THEN "  [LOCAL ]  " ELSE "  [REMOTE]  ">>
                           \o NameOr(users[i].name) \o <<"  -  ">>
                           \o truncate_id(users[i].id, 24)]
      IN  IF NoReply(x) THEN ExchangeFailure(x)
          ELSE IF x.st = "ok"
          THEN OkReply(WithApp(x.w, set_content(a3, <<"Users">>, lines)), users)
          ELSE Ok(WithApp(x.w, show_lines(
                     push_event(x.w.app, <<"[USERS] Fetch failed: ">> \o NodeError),
                     <<"Users">>, << <<"Error fetching users: ">> \o NodeError >>)),
                  "reply_err")

\* cmd_users, but a reply is merged into the cache instead of replacing it.
cmd_users_merged(w, o) ==
    IF w.app.node_tx = None
    THEN LET ids == unwrap_or_default(list_known_users(w.fs, o))
             nameOf(id) == IF load_known_user(w.fs, id, o) = None
                           THEN <<"(unnamed)">>
                           ELSE NameOr(Unwrap(load_known_user(w.fs, id, o)).name)
             head == << <<"Known users  (", Num(Len(ids)), ")">>, <<>> >>
             lines == IF ids = <<>>
                      THEN Append(head, <<"  No remote users on record.">>)
                      ELSE head \o [i \in 1..Len(ids) |->
                                      <<"  ">> \o nameOf(ids[i]) \o <<"  ">> \o ids[i]]
         IN  Ok(WithApp(w, set_content(w.app, <<"Users">>, lines)), "no_node")
    ELSE
      LET x == Exchange(w, Unwrap(w.app.node_tx), [tag |-> "GetUsers"], o)
          users == o.users
          a1 == [x.w.app EXCEPT !.users = @ \o users]
          a2 == push_event(a1, <<"[USERS] Refreshed (", Num(Len(users)), " found).">>)
          a3 == push_output(a2, <<"Users: ", Num(Len(users)), " found.">>)
      IN  IF NoReply(x) THEN ExchangeFailure(x)
          ELSE IF x.st = "ok"
          THEN OkReply(WithApp(x.w, show_lines(a3, <<"Users">>, <<>>)), users)
          ELSE Ok(WithApp(x.w, show_lines(
                     push_event(x.w.app, <<"[USERS] Fetch failed: ">> \o NodeError),
                     <<"Users">>, << <<"Error fetching users: ">> \o NodeError >>)),
                  "reply_err")

cmd_users(w, o) ==
    IF w.app.node_tx = None
    THEN \* Fallback: read from the store.
      LET ids == unwrap_or_default(list_known_users(w.fs, o))
          nameOf(id) == IF load_known_user(w.fs, id, o) = None
                        THEN <<"(unnamed)">>
                        ELSE NameOr(Unwrap(load_known_user(w.fs, id, o)).name)
          head == << <<"Known users  (", Num(Len(ids)), ")">>, <<>> >>
          lines == IF ids = <<>>
                   THEN Append(head, <<"  No remote users on record.">>)
                   ELSE head \o [i \in 1..Len(ids) |->
                                   <<"  ">> \o nameOf(ids[i]) \o <<"  ">> \o ids[i]]
      IN  Ok(WithApp(w, set_content(w.app, <<"Users">>, lines)), "no_node")
    ELSE
      LET x == Exchange(w, Unwrap(w.app.node_tx), [tag |-> "GetUsers"], o)
          users == o.users
          a1 == [x.w.app EXCEPT !.users = users]
          a2 == push_event(a1, <<"[USERS] Refreshed (", Num(Len(users)), " found).">>)
          a3 == push_output(a2, <<"Users: ", Num(Len(users)), " found.">>)
          head == << <<"Known users  (", Num(Len(users)), ")">>, <<>> >>
          lines == IF users = <<>>
                   THEN Append(head, <<"  No remote users discovered yet.">>)
                   ELSE head \o [i \in 1..Len(users) |->
                           <<IF users[i].local THEN "  [LOCAL ]  " ELSE "  [REMOTE]  ">>
                           \o NameOr(users[i].name) \o <<"  -  ">>
                           \o truncate_id(users[i].id, 24)]
      IN  IF NoReply(x) THEN ExchangeFailure(x)
          ELSE IF x.st = "ok"
          THEN OkReply(WithApp(x.w, set_content(a3, <<"Users">>, lines)), users)
          ELSE Ok(WithApp(x.w, show_lines(
                     push_event(x.w.app, <<"[USERS] Fetch failed: ">> \o NodeError),
                     <<"Users">>, << <<"Error fetching users: ">> \o NodeError >>)),
                  "reply_err")

----------------------------------------------------------------------------
(* commands.rs: connections.  The node's reply to CreateConnection{to_id}  *)
(* is a connection to to_id, its reply to AcceptConnection{from_id, ..} a  *)
(* connection from from_id; the other fields are the node's (o.peer,       *)
(* o.est).                                                                 *)

StateWord(c) == IF c.established THEN "established" ELSE "pending"

NoUserLine(nick) ==
    <<"No user found with nick '">> \o nick \o <<"'. Use /users to see known users.">>

\* A variant of InsertByTo that always pushes.
InsertByTo_always_push(conns, conn) == Append(conns, conn)

\* if !connections.iter().any(|c| c.to_id == conn.to_id) { connections.push(conn) }
InsertByTo(conns, conn) ==
    IF \E i \in 1..Len(conns) : conns[i].to_id = conn.to_id
    THEN conns
    ELSE Append(conns, conn)

cmd_connection(w, rest, o) ==
    LET arg == trim(rest)
        to_id == resolve_nick(w.fs, arg, o)
    IN  IF arg = <<>>
        THEN Ok(WithApp(w, show_lines(w.app, <<"Connection">>,
                   << <<"Usage: /connection <nick>">> >>)), "usage")
        ELSE IF to_id = None
        THEN Ok(WithApp(w, show_lines(w.app, <<"Connection">>, <<NoUserLine(arg)>>)), "no_user")
        ELSE IF w.app.node_tx = None
        THEN Ok(WithApp(w, show_lines(w.app, <<"Connection">>, <<NotRunningLine>>)), "no_node")
        ELSE
          LET x == Exchange(w, Unwrap(w.app.node_tx),
                            [tag |-> "CreateConnection", to_id |-> Unwrap(to_id)], o)
              conn == Connection(o.peer, Unwrap(to_id), o.est, None)
              a1 == push_event(x.w.app, <<"[CONN] -> ">> \o truncate_id(conn.to_id, 16)
                                          \o <<" [", StateWord(conn), "]">>)
              a2 == push_output(a1, <<"Connection initiated with ">> \o arg
                                      \o <<" [", StateWord(conn), "].">>)
              lines == << <<"Connection initiated  [", StateWord(conn), "]">>,
                          <<>>,
                          <<"  from  : ">> \o conn.from_id,
                          <<"  to    : ">> \o conn.to_id,
                          <<"  state : ", StateWord(conn)>> >>
              a3 == [a2 EXCEPT !.connections = InsertByTo(@, conn)]
          IN  IF NoReply(x) THEN ExchangeFailure(x)
              ELSE IF x.st = "ok"
              THEN OkReply(WithApp(x.w, set_content(a3, <<"Connection">>, lines)), conn)
              ELSE Ok(WithApp(x.w, show_lines(
                         push_event(x.w.app, <<"[CONN] Create failed: ">> \o NodeError),
                         <<"Connection">>, << <<"Error creating connection: ">> \o NodeError >>)),
                      "reply_err")

\* The stored connections from from_id to each of to_ids, in order, the
\* ones that fail to load skipped.
RECURSIVE LoadConnections(_, _, _, _)
LoadConnections(f, from_id, to_ids, o) ==
    IF to_ids = <<>> THEN <<>>
    ELSE LET c == load_connection(f, from_id, Head(to_ids), o)
         IN  (IF c = None THEN <<>> ELSE <<Unwrap(c)>>)
             \o LoadConnections(f, from_id, Tail(to_ids), o)

\* local_user.as_ref().map(|u| u.id.clone()).unwrap_or_default()
LocalIdOrDefault(f, o) ==
    IF load_local_user(f, o) = None THEN <<>> ELSE Unwrap(load_local_user(f, o)).id

cmd_connections(w, o) ==
    LET from_id == LocalIdOrDefault(w.fs, o)
        to_ids  == unwrap_or_default(list_connections(w.fs, o))
        conns   == LoadConnections(w.fs, from_id, to_ids, o)
        a1 == [w.app EXCEPT !.connections = conns]
        head == << <<"Connections  (", Num(Len(conns)), ")">>, <<>> >>
        lines == IF conns = <<>>
                 THEN Append(head, <<"  No connections on record.">>)
                 ELSE head \o [i \in 1..Len(conns) |->
                         <<"  [", StateWord(conns[i]), "]  ">> \o truncate_id(conns[i].from_id, 16)
                         \o <<" -> ">> \o truncate_id(conns[i].to_id, 16)]
        a2 == push_output(a1, <<"Connections: ", Num(Len(conns)), ".">>)
    IN  Ok(WithApp(w, set_content(a2, <<"Connections">>, lines)), "ok")

cmd_connections_pending(w, o) ==
    LET from_id == LocalIdOrDefault(w.fs, o)
        to_ids  == unwrap_or_default(list_connections(w.fs, o))
        NotEstablished(c) == ~c.established
        pending == SelectSeq(LoadConnections(w.fs, from_id, to_ids, o), NotEstablished)
        head == << <<"Pending connections  (", Num(Len(pending)), ")">>, <<>> >>
        entry(c) == << <<"  ">> \o truncate_id(c.from_id, 16) \o <<" -> ">>
                       \o truncate_id(c.to_id, 16) >>
                    \o (IF c.public_key = None THEN <<>>
                        ELSE << <<"    our_public_key: ">> \o Unwrap(c.public_key) >>)
        body[i \in 0..Len(pending)] ==
            IF i = 0 THEN <<>> ELSE body[i - 1] \o entry(pending[i])
        lines == IF pending = <<>>
                 THEN Append(head, <<"  No pending connections.">>)
                 ELSE head \o body[Len(pending)]
    IN  Ok(WithApp(w, set_content(w.app, <<"Connections (Pending)">>, lines)), "ok")

\* A variant of UpsertByFrom that always pushes.
UpsertByFrom_always_push(conns, conn) == Append(conns, conn)

\* connections.iter().position(..) then replace in place, or push.
UpsertByFrom(conns, conn) ==
    IF \E i \in 1..Len(conns) : conns[i].from_id = conn.from_id
    THEN LET k == CHOOSE i \in 1..Len(conns) :
                      conns[i].from_id = conn.from_id
                      /\ \A j \in 1..(i - 1) : conns[j].from_id # conn.from_id
         IN  [conns EXCEPT ![k] = conn]
    ELSE Append(conns, conn)

cmd_accept_connection(w, rest, o) ==
    LET parts == splitn(2, rest)
    IN  IF Len(parts) < 2
        THEN Ok(WithApp(w, show_lines(w.app, <<"Accept Connection">>,
                   << <<"Usage: /acceptConnection <from_id> <their_public_key>">> >>)), "usage")
        ELSE IF w.app.node_tx = None
        THEN Ok(WithApp(w, show_lines(w.app, <<"Accept Connection">>, <<NotRunningLine>>)),
                "no_node")
        ELSE
          LET from_id == trim(parts[1])
              their_pub_key == trim(parts[2])
              x == Exchange(w, Unwrap(w.app.node_tx),
                            [tag |-> "AcceptConnection", from_id |-> from_id,
                             their_public_key |-> their_pub_key], o)
              conn == Connection(from_id, o.peer, o.est, None)
              a1 == push_event(x.w.app, <<"[CONN] Accepted from ">>
                                  \o truncate_id(conn.from_id, 16) \o <<" - DH key established.">>)
              a2 == push_output(a1, <<"Connection with ">> \o conn.from_id \o <<" accepted.">>)
              lines == << <<"Connection accepted  [established]">>,
                          <<>>,
                          <<"  from  : ">> \o conn.from_id,
                          <<"  to    : ">> \o conn.to_id >>
              a3 == [a2 EXCEPT !.connections = UpsertByFrom(@, conn)]
          IN  IF NoReply(x) THEN ExchangeFailure(x)
              ELSE IF x.st = "ok"
              THEN OkReply(WithApp(x.w, set_content(a3, <<"Accept Connection">>, lines)), conn)
              ELSE Ok(WithApp(x.w, show_lines(
                         push_event(x.w.app, <<"[CONN] Accept failed: ">> \o NodeError),
                         <<"Accept Connection">>,
                         << <<"Error accepting connection: ">> \o NodeError >>)),
                      "reply_err")

cmd_decline_connection(w, rest) ==
    LET user_id == trim(rest)
        Keep(c) == c.to_id # user_id /\ c.from_id # user_id
        a1 == [w.app EXCEPT !.connections = SelectSeq(@, Keep)]
        a2 == push_event(a1, <<"[CONN] Declined connection with ">>
                               \o truncate_id(user_id, 16) \o <<".">>)
    IN  IF user_id = <<>>
        THEN Ok(WithApp(w, show_lines(w.app, <<"Decline Connection">>,
                   << <<"Usage: /declineConnection <connection_id>">> >>)), "usage")
        ELSE Ok(WithApp(w, show_lines(a2, <<"Decline Connection">>,
                   << <<"Connection with ">> \o user_id \o <<" removed locally.">>,
                      <<"(Network-level decline not yet implemented in the library.)">> >>)),
                "ok")

----------------------------------------------------------------------------
(* commands.rs: messages.  A serde_json::Value is kept as its compact      *)
(* rendering.  A text parses as JSON when it is one of the JSON words of   *)
(* the model or a decimal number without a leading zero.                   *)

JsonWords == {"{x:1}", "[]", "null"}

IsJson(s) ==
    \/ Len(s) = 1 /\ s[1] \in JsonWords
    \/ /\ s # <<>>
       /\ \A i \in 1..Len(s) : s[i] \in DOMAIN DigitVal
       /\ (Len(s) > 1 => s[1] # "0")

\* serde_json::json!({ key: body })
JsonObject(key, body) == <<"{", key, ":">> \o body \o <<"}">>

send_message(w, nick, to_id, plugin_type, plugin_body, o) ==
    LET loaded == load_local_user(w.fs, o)
    IN  IF w.app.node_tx = None
        THEN Ok(WithApp(w, show_lines(w.app, <<"Message">>, <<NotRunningLine>>)), "no_node")
        ELSE IF loaded = None
        THEN Err(w, <<"No local user - run /user first">>, "no_local")
        ELSE
          LET local_user == Unwrap(loaded)
              msg == [from |-> local_user.id, to |-> to_id,
                      plugin_type |-> plugin_type, plugin_body |-> plugin_body]
              x == Exchange(w, Unwrap(w.app.node_tx), [tag |-> "StoreMessage", data |-> msg], o)
              hash == o.hash
              line == <<"[">> \o truncate_id(local_user.id, 8) \o <<"->">> \o truncate_id(to_id, 8)
                      \o <<"]  [">> \o plugin_type \o <<"]  ">> \o plugin_body
              a1 == [x.w.app EXCEPT !.messages = Append(@, line)]
              a2 == push_event(a1, <<"[MSG] -> ">> \o nick \o <<" [">> \o plugin_type
                                     \o <<"] (hash: ">> \o truncate_id(hash, 12) \o <<")">>)
              a3 == push_output(a2, <<"Message sent to ">> \o nick \o <<" (hash: ">>
                                      \o hash \o <<").">>)
              lines == << <<"Message sent  [">> \o plugin_type \o <<"]">>,
                          <<>>,
                          <<"  to   : ">> \o nick \o <<" (">> \o truncate_id(to_id, 16) \o <<")">>,
                          <<"  body : ">> \o plugin_body,
                          <<"  hash : ">> \o hash >>
          IN  IF NoReply(x) THEN ExchangeFailure(x)
              ELSE IF x.st = "ok"
              THEN OkReply(WithApp(x.w, set_content(a3, <<"Message">>, lines)), hash)
              ELSE Ok(WithApp(x.w, show_lines(
                         push_event(x.w.app, <<"[MSG] Send failed: ">> \o NodeError),
                         <<"Message">>, << <<"Error storing message: ">> \o NodeError >>)),
                      "reply_err")

\* A variant of cmd_message that tags the message "message" and sends the
\* body as it was typed.
cmd_message_untagged(w, rest, o) ==
    LET parts == splitn(2, rest)
    IN  IF Len(parts) < 2
        THEN Ok(WithApp(w, show_lines(w.app, <<"Message">>,
                   << <<"Usage: /message <nick> <body>">> >>)), "usage")
        ELSE
          LET nick == trim(parts[1])
              body == trim(parts[2])
              to_id == resolve_nick(w.fs, nick, o)
          IN  IF to_id = None
              THEN Ok(WithApp(w, show_lines(w.app, <<"Message">>, <<NoUserLine(nick)>>)),
                      "no_user")
              ELSE send_message(w, nick, Unwrap(to_id), <<"message">>, body, o)

cmd_message(w, rest, o) ==
    LET parts == splitn(2, rest)
    IN  IF Len(parts) < 2
        THEN Ok(WithApp(w, show_lines(w.app, <<"Message">>,
                   << <<"Usage: /message <nick> <body>">> >>)), "usage")
        ELSE
          LET nick == trim(parts[1])
              body == trim(parts[2])
              to_id == resolve_nick(w.fs, nick, o)
          IN  IF to_id = None
              THEN Ok(WithApp(w, show_lines(w.app, <<"Message">>, <<NoUserLine(nick)>>)),
                      "no_user")
              ELSE send_message(w, nick, Unwrap(to_id), <<"text">>,
                                JsonObject("text", body), o)

cmd_message_plugin(w, rest, o) ==
    LET parts == splitn(3, rest)
    IN  IF Len(parts) < 3
        THEN Ok(WithApp(w, show_lines(w.app, <<"Message">>,
                   << <<"Usage: /messagePlugin <nick> <plugin_type> <plugin_body>">> >>)), "usage")
        ELSE
          LET nick == trim(parts[1])
              plugin_type == trim(parts[2])
              plugin_body_str == trim(parts[3])
              to_id == resolve_nick(w.fs, nick, o)
              plugin_body == IF IsJson(plugin_body_str) THEN plugin_body_str
                             ELSE JsonObject("raw", plugin_body_str)
          IN  IF to_id = None
              THEN Ok(WithApp(w, show_lines(w.app, <<"Message">>, <<NoUserLine(nick)>>)),
                      "no_user")
              ELSE send_message(w, nick, Unwrap(to_id), plugin_type, plugin_body, o)

----------------------------------------------------------------------------
(* commands.rs: execute.                                                   *)

Cmd(word) == <<"/", word>>

execute(w, raw, o) ==
    LET input == trim(raw)
        cmd   == split_command(input)[1]
        rest  == split_command(input)[2]
    IN  IF input = <<>> THEN Ok(w, "empty")
        ELSE CASE cmd = Cmd("help")              -> cmd_help(w)
               [] cmd = Cmd("quit")              -> cmd_quit(w)
               [] cmd = Cmd("events")            -> cmd_events(w)
               [] cmd = Cmd("console")           -> cmd_console(w)
               [] cmd = Cmd("messages")          -> cmd_messages(w)
               [] cmd = Cmd("startNode")         -> cmd_start_node(w, o)
               [] cmd = Cmd("stopNode")          -> cmd_stop_node(w)
               [] cmd = Cmd("restartNode")       -> cmd_restart_node(w, o)
               [] cmd = Cmd("port")              -> cmd_port(w, rest, o)
               [] cmd = Cmd("sync")              -> cmd_sync(w)
               [] cmd = Cmd("peers")             -> cmd_peers(w, o)
               [] cmd = Cmd("nick")              -> cmd_nick(w, rest, o)
               [] cmd = Cmd("user")              -> cmd_user(w, rest, o)
               [] cmd = Cmd("users")             -> cmd_users(w, o)
               [] cmd = Cmd("connection")        -> cmd_connection(w, rest, o)
               [] cmd = Cmd("connections")       -> cmd_connections(w, o)
               [] cmd = Cmd("connectionsPending") -> cmd_connections_pending(w, o)
               [] cmd = Cmd("acceptConnection")  -> cmd_accept_connection(w, rest, o)
               [] cmd = Cmd("declineConnection") -> cmd_decline_connection(w, rest)
               [] cmd = Cmd("message")           -> cmd_message(w, rest, o)
               [] cmd = Cmd("messagePlugin")     -> cmd_message_plugin(w, rest, o)
               [] OTHER ->
                    Ok(WithApp(w, show_lines(
                          push_event(w.app, <<"[CMD] Unknown: ">> \o cmd),
                          <<"Error">>,
                          << <<"Unknown command: ">> \o cmd \o <<". Type /help for a list.">> >>)),
                       "unknown")

----------------------------------------------------------------------------
(* events.rs: handle_key, one operator per arm.                            *)

page_up(a) == [a EXCEPT !.content_scroll = saturating_sub(@, ScrollStep)]
page_down(a) == [a EXCEPT !.content_scroll = saturating_add(@, ScrollStep)]

\* Vec::last() of the history, as an Option.
history_last(a) ==
    IF a.prompt_history = <<>> THEN None ELSE Some(a.prompt_history[Len(a.prompt_history)])

\* A variant of enter_begin that saves every line to the history.
enter_begin_always_push(a, input) ==
    [a EXCEPT !.prompt_history = Append(@, input),
              !.prompt_history_idx = None,
              !.prompt_input = <<>>]

\* A variant of enter_begin that saves the buffer as typed, not trimmed.
enter_begin_untrimmed(a, input) ==
    [a EXCEPT !.prompt_history = IF history_last(a) # Some(a.prompt_input)
                                 THEN Append(@, a.prompt_input) ELSE @,
              !.prompt_history_idx = None,
              !.prompt_input = <<>>]

\* Enter, up to the call of commands::execute: save to history (avoiding
\* consecutive duplicates), leave browsing, clear the buffer.
enter_begin(a, input) ==
    [a EXCEPT !.prompt_history = IF history_last(a) # Some(input) THEN Append(@, input) ELSE @,
              !.prompt_history_idx = None,
              !.prompt_input = <<>>]

\* A variant of enter_error that also asks the loop to end.
enter_error_quits(a, e) ==
    LET msg == <<"Error: ">> \o e
        a1  == push_output(push_event(a, <<"[ERR] ">> \o e), msg)
    IN  [a1 EXCEPT !.content_lines = Append(@, msg), !.should_quit = TRUE]

\* Enter, the arm taken when commands::execute returned Err(e).
enter_error(a, e) ==
    LET msg == <<"Error: ">> \o e
        a1  == push_output(push_event(a, <<"[ERR] ">> \o e), msg)
    IN  [a1 EXCEPT !.content_lines = Append(@, msg)]

\* A variant of key_backspace that stays in the history.
key_backspace_idx_kept(a) ==
    [a EXCEPT !.prompt_input = IF @ = <<>> THEN @ ELSE SubSeq(@, 1, Len(@) - 1)]

\* String::pop: drops the last symbol, if any.
key_backspace(a) ==
    [a EXCEPT !.prompt_input = IF @ = <<>> THEN @ ELSE SubSeq(@, 1, Len(@) - 1),
              !.prompt_history_idx = None]

\* History indices are 0-based, as in the code.
scroll_history_up(a) ==
    IF a.prompt_history = <<>> THEN a
    ELSE LET new_idx == IF a.prompt_history_idx = None
                        THEN Len(a.prompt_history) - 1
                        ELSE saturating_sub(Unwrap(a.prompt_history_idx), 1)
         IN  [a EXCEPT !.prompt_history_idx = Some(new_idx),
                       !.prompt_input = a.prompt_history[new_idx + 1]]

\* A variant of scroll_history_down that leaves the buffer as it is when
\* it returns to the live buffer.
scroll_history_down_buffer_kept(a) ==
    IF a.prompt_history_idx = None THEN a
    ELSE LET i == Unwrap(a.prompt_history_idx)
         IN  IF i + 1 < Len(a.prompt_history)
             THEN [a EXCEPT !.prompt_history_idx = Some(i + 1),
                            !.prompt_input = a.prompt_history[i + 2]]
             ELSE [a EXCEPT !.prompt_history_idx = None]

scroll_history_down(a) ==
    IF a.prompt_history_idx = None THEN a
    ELSE LET i == Unwrap(a.prompt_history_idx)
         IN  IF i + 1 < Len(a.prompt_history)
             THEN [a EXCEPT !.prompt_history_idx = Some(i + 1),
                            !.prompt_input = a.prompt_history[i + 2]]
             ELSE [a EXCEPT !.prompt_history_idx = None,
                            !.prompt_input = <<>>]

\* A variant of key_char without the inserted '/'.
key_char_plain(a, c) ==
    [a EXCEPT !.prompt_input = Append(@, c),
              !.prompt_history_idx = None]

\* KeyCode::Char(c): '/' goes in first when the buffer is empty and c is not '/'.
key_char(a, c) ==
    LET pre == IF a.prompt_input = <<>> /\ c # "/" THEN <<"/">> ELSE a.prompt_input
    IN  [a EXCEPT !.prompt_input = Append(pre, c),
                  !.prompt_history_idx = None]

----------------------------------------------------------------------------
(* ui.rs: render_content's scroll clamp, for a content area of the given   *)
(* height (area.height, borders included).                                 *)

visible_height(height) == saturating_sub(height, 2)

\* A variant of scroll_offset that takes content_scroll as it is stored.
scroll_offset_unclamped(a, height) == a.content_scroll

scroll_offset(a, height) ==
    LET total == Len(a.content_lines)
    IN  IF total <= visible_height(height) THEN 0
        ELSE Min(a.content_scroll, total - visible_height(height))

----------------------------------------------------------------------------
(* The operator and the collaborators of one session.  A session fixes the *)
(* lines the operator types (Lines), what the store holds at start         *)
(* (Stores), how many commands are submitted (Budget) and the answers the  *)
(* collaborators may give (Oracles).                                       *)

Line(words) ==  \* "/" then the words, separated by single spaces
    LET sp[i \in 0..Len(words)] ==
            IF i = 0 THEN <<"/">>
            ELSE IF i = 1 THEN <<"/", words[1]>>
            ELSE sp[i - 1] \o <<" ", words[i]>>
    IN  sp[Len(words)]

IdL == LongId("L")
IdA == LongId("A")
UserL == User(IdL, Some(<<"me">>), TRUE)
UserA == User(IdA, Some(<<"bob">>), FALSE)

\* A store with a local user "me" and a known remote user "bob".
StoreFull ==
    [local |-> Some(UserL),
     known |-> << [id |-> IdA, name |-> Some(<<"bob">>)] >>,
     conns |-> << Connection(IdL, IdA, FALSE, Some(<<"pk">>)) >>,
     peers |-> Some(<< <<"/ip4/10.0.0.2/tcp/51030">> >>)]

\* The same store with a second known user and a second stored connection.
IdC == LongId("C")
StoreTwo ==
    [StoreFull EXCEPT
       !.known = Append(@, [id |-> IdC, name |-> Some(<<"carol">>)]),
       !.conns = Append(@, Connection(IdL, IdC, TRUE, None))]

\* A store that holds nothing yet.
StoreEmpty == [local |-> None, known |-> <<>>, conns |-> <<>>, peers |-> None]

PromptSyms == {"/", " ", "a"}

Lines(s) ==
    CASE s = "node" ->
           {Line(<<"startNode">>), Line(<<"stopNode">>), Line(<<"restartNode">>),
            Line(<<"users">>), Line(<<"user">>)}
      [] s = "port" ->
           {Line(<<"port">>), Line(<<"port", "0">>), Line(<<"port", "x">>),
            <<"/", "port", " ", "7", "0", "0", "0", "0">>,
            <<"/", "port", " ", "9", "0">>, Line(<<"stopNode">>)}
      [] s = "conn" ->
           {Line(<<"connection", "me">>), Line(<<"connection", "ME">>),
            Line(<<"acceptConnection", "A", "k">>), Line(<<"acceptConnection", "B", "k">>)}
      [] s = "accept" ->
           {Line(<<"connections">>), Line(<<"acceptConnection", "A", "k">>),
            Line(<<"acceptConnection">>) \o <<" ">> \o IdL \o <<" ", "k">>}
      [] s = "msg" ->
           {Line(<<"message", "alice", "hello">>), Line(<<"message", "bob", "hello">>),
            Line(<<"messagePlugin", "alice", "note", "{x:1}">>),
            Line(<<"messagePlugin", "bob", "note", "{x:1}">>),
            Line(<<"stopNode">>)}
      [] s = "nick" ->
           {Line(<<"users">>), Line(<<"nick", "neo">>), Line(<<"nick", "zed">>)}
      [] s = "views" ->
           {Line(<<"events">>), Line(<<"console">>), Line(<<"messages">>),
            Line(<<"message", "bob", "hello">>)}
      [] s = "exchange" ->
           {Line(<<"user", "neo">>), Line(<<"users">>), Line(<<"connection", "bob">>),
            Line(<<"acceptConnection", "A", "k">>),
            Line(<<"messagePlugin", "bob", "note", "{x:1}">>)}
      [] s = "parse" ->
           {Line(<<"bogus">>), Line(<<"port", "x">>), Line(<<"port", "0">>),
            Line(<<"nick">>), Line(<<"connection">>), Line(<<"acceptConnection", "A">>),
            Line(<<"declineConnection">>), Line(<<"message", "bob">>),
            Line(<<"messagePlugin", "bob", "note">>)}
      [] s = "quit" -> {Line(<<"quit">>), Line(<<"help">>)}
      [] s = "peers" ->
           {Line(<<"peers">>), Line(<<"stopNode">>)}
      [] s = "fail" ->
           {Line(<<"users">>), Line(<<"nick", "neo">>), Line(<<"port", "x">>)}
      [] s = "absent" ->
           {Line(<<"user">>), Line(<<"user", "bob">>),
            Line(<<"users">>),
            Line(<<"connection">>), Line(<<"connection", "bob">>), Line(<<"connection", "zed">>),
            Line(<<"acceptConnection", "A">>), Line(<<"acceptConnection", "A", "k">>),
            Line(<<"message", "bob", "hello">>),
            Line(<<"messagePlugin", "bob", "note", "{x:1}">>)}
      [] OTHER -> {}

\* The buffers the operator passes through: in the session "prompt" any text
\* of at most MaxInput symbols, elsewhere the prefixes of the session's lines.
Typed(s, buf) ==
    IF s = "prompt"
    THEN Len(buf) <= MaxInput /\ \A i \in 1..Len(buf) : buf[i] \in PromptSyms
    ELSE \E l \in Lines(s) : IsPrefix(buf, l)

\* The buffers the operator submits: in the session "prompt" whatever is in
\* the buffer, elsewhere the session's lines (and the empty line).
Submits(s, buf) ==
    s = "prompt" \/ trim(buf) = <<>> \/ trim(buf) \in Lines(s)

Symbols(s) ==
    IF s = "prompt" THEN PromptSyms
    ELSE UNION {{l[i] : i \in 1..Len(l)} : l \in Lines(s)}

Stores(s) ==
    CASE s = "node" -> {StoreFull}
      [] s = "conn" -> {StoreFull}
      [] s = "accept" -> {StoreTwo}
      [] s = "msg"  -> {StoreFull, StoreEmpty}
      [] s = "nick" -> {StoreFull, StoreEmpty}
      [] OTHER      -> {StoreFull}

Budget(s) ==
    CASE s = "conn"   -> MaxCmdsConn
      [] s = "accept" -> MaxCmdsAccept
      [] s = "nick"   -> MaxCmdsNick
      [] OTHER        -> MaxCmds

AllReplies == {"Ok", "Err", "Dropped", "Never"}

Oracles(s) ==
    [start : IF s \in {"node", "port", "absent", "nick"} THEN {"ok", "fail"} ELSE {"ok"},
     reply : CASE s = "prompt" -> {"Ok"}
               [] s = "conn"   -> {"Ok"}
               [] s = "accept" -> {"Ok", "Err"}
               [] s = "nick"   -> {"Ok"}
               [] s = "absent" -> {"Ok"}
               [] s = "views"  -> {"Ok"}
               [] s = "parse"  -> {"Ok"}
               [] s = "quit"   -> {"Ok"}
               [] s = "exchange" -> {"Ok", "Err", "Dropped"}
               [] OTHER        -> AllReplies,
     io    : CASE s = "nick" -> {"ok", "read", "write"}
               [] s = "fail" -> {"ok", "write"}
               [] s = "peers" -> {"ok", "read"}
               [] OTHER      -> {"ok"},
     user  : {UserL},
     users : IF s = "nick" THEN {<<UserL, UserA>>, <<UserA>>} ELSE {<<UserL, UserA>>},
     peer  : {IdL},
     est   : IF s = "accept" THEN BOOLEAN ELSE {FALSE},
     hash  : {LongId("h")}]

----------------------------------------------------------------------------
(* main.rs: main and run.  pc = "boot": App::new() has run, the warm       *)
(* /startNode has not.  pc = "loop": run is at its select, between two     *)
(* events.  pc = "stalled": a command awaits a reply that never comes.     *)
(* pc = "done": run returned Ok.  pc = "failed": run returned the error of  *)
(* the input source.  pc = "draw_failed": run returned the error of the    *)
(* terminal.                                                               *)

\* last is the record of the latest command dispatched: its line, the way
\* it went (kind, res), the value a successful node reply carried (val), how
\* many commands it submitted to the node (nsent), the connection cache it
\* found (conns0), and the same of the command dispatched before it (prev).
NoPrev == [line |-> <<>>, kind |-> "none", val |-> None, conns0 |-> <<>>]

NoCommand ==
    [line |-> <<>>, kind |-> "none", res |-> "Ok", val |-> None, nsent |-> 0,
     conns0 |-> <<>>, prev |-> NoPrev]

Record(input, r, w0, l0) ==
    [line |-> input, kind |-> r.kind, res |-> r.res, val |-> r.val,
     nsent |-> Submitted(r.w.net) - Submitted(w0.net),
     conns0 |-> w0.app.connections,
     prev |-> [line |-> l0.line, kind |-> l0.kind, val |-> l0.val, conns0 |-> l0.conns0]]

InitFor(s) ==
    /\ session = s
    /\ app = AppNew
    /\ fs \in Stores(s)
    /\ net = <<>>
    /\ pc = "boot"
    /\ last = NoCommand
    /\ ncmds = 0

\* The paging session: run is at its select, the node did not start, some
\* command has left a view of 1..MaxView lines, and PageDown or a log view
\* has left content_scroll near the bottom or near the top of its range.
Scrolls == (0..MaxScrollInit) \cup ((U16Max - MaxScrollInit)..(U16Max - 1))

InitScroll ==
    /\ session = "scroll"
    /\ \E c \in Scrolls, n \in 1..MaxView :
          app = [set_content(AppNew, <<"Help">>, SubSeq(HelpLines, 1, n))
                   EXCEPT !.content_scroll = c]
    /\ fs = StoreFull
    /\ net = <<>>
    /\ pc = "loop"
    /\ last = NoCommand
    /\ ncmds = 0

\* main: commands::execute(&mut app, "/startNode"), then run.
WarmStart ==
    /\ pc = "boot"
    /\ \E o \in Oracles(session) :
       \E r \in {execute(World(app, fs, net), Line(<<"startNode">>), o)} :
         LET a1 == IF r.res = "Err"
                   THEN push_event(r.w.app, <<"[NODE] Auto-start failed: ">> \o r.err)
                   ELSE r.w.app
         IN  /\ app' = a1
             /\ fs' = r.w.fs
             /\ net' = r.w.net
             /\ last' = Record(Line(<<"startNode">>), r, World(app, fs, net), last)
    /\ pc' = "loop"
    /\ UNCHANGED <<ncmds, session>>

\* run: terminal.draw(..): reads the session state, changes nothing.
Draw == pc = "loop" /\ UNCHANGED vars

\* run: terminal.draw(..)? : the terminal failed, run returns its error.
DrawError ==
    pc = "loop" /\ pc' = "draw_failed" /\ UNCHANGED <<app, fs, net, last, ncmds, session>>

\* run: the 250 ms tick wins the select.
Tick == pc = "loop" /\ UNCHANGED vars

\* run: Some(Ok(_)) that is no key event (mouse, resize), or a key no arm handles.
OtherEvent == pc = "loop" /\ UNCHANGED vars

\* run: None: the input stream ended.
InputEnd == pc = "loop" /\ pc' = "done" /\ UNCHANGED <<app, fs, net, last, ncmds, session>>

\* run: Some(Err(e)): the input source failed.
InputError == pc = "loop" /\ pc' = "failed" /\ UNCHANGED <<app, fs, net, last, ncmds, session>>

\* A variant of KeyQuit that tells a running node to shut down on the way out.
KeyQuit_stops_node ==
    /\ pc = "loop"
    /\ pc' = "done"
    /\ net' = IF IsSome(app.node_tx)
              THEN ChannelSend(net, Unwrap(app.node_tx), [tag |-> "Shutdown"]).net
              ELSE net
    /\ UNCHANGED <<app, fs, last, ncmds, session>>

\* A variant of KeyQuit that is also handled while a command awaits its reply.
KeyQuit_while_awaiting ==
    /\ pc \in {"loop", "stalled"}
    /\ pc' = "done"
    /\ UNCHANGED <<app, fs, net, last, ncmds, session>>

\* handle_key: Ctrl+C or Esc returns Ok(true); run breaks.
KeyQuit == pc = "loop" /\ pc' = "done" /\ UNCHANGED <<app, fs, net, last, ncmds, session>>

KeyPageUp ==
    /\ pc = "loop"
    /\ app' = page_up(app)
    /\ UNCHANGED <<fs, net, pc, last, ncmds, session>>

KeyPageDown ==
    /\ pc = "loop"
    /\ \/ app.content_scroll < MaxPages * ScrollStep
       \/ app.content_scroll + MaxPages * ScrollStep >= U16Max
    /\ app' = page_down(app)
    /\ UNCHANGED <<fs, net, pc, last, ncmds, session>>

\* handle_key, KeyCode::Enter, and run's test of the value it returns.
KeyEnter ==
    /\ pc = "loop"
    /\ Submits(session, app.prompt_input)
    /\ LET input == trim(app.prompt_input)
       IN  IF input = <<>>
           THEN UNCHANGED vars
           ELSE /\ ncmds < Budget(session)
                /\ \E o \in Oracles(session) :
                   \E r \in {execute(World(enter_begin(app, input), fs, net), input, o)} :
                     LET a1 == IF r.res = "Err" THEN enter_error(r.w.app, r.err) ELSE r.w.app
                     IN  /\ app' = a1
                         /\ fs' = r.w.fs
                         /\ net' = r.w.net
                         /\ last' = Record(input, r, World(app, fs, net), last)
                         /\ pc' = IF r.res = "Stalled" THEN "stalled"
                                  ELSE IF a1.should_quit THEN "done" ELSE "loop"
                /\ ncmds' = ncmds + 1
                /\ UNCHANGED session

KeyBackspace ==
    /\ pc = "loop"
    /\ app' = key_backspace(app)
    /\ UNCHANGED <<fs, net, pc, last, ncmds, session>>

KeyUp ==
    /\ pc = "loop"
    /\ app' = scroll_history_up(app)
    /\ UNCHANGED <<fs, net, pc, last, ncmds, session>>

KeyDown ==
    /\ pc = "loop"
    /\ app' = scroll_history_down(app)
    /\ UNCHANGED <<fs, net, pc, last, ncmds, session>>

KeyChar ==
    /\ pc = "loop"
    /\ \E c \in Symbols(session) :
         /\ Typed(session, key_char(app, c).prompt_input)
         /\ app' = key_char(app, c)
    /\ UNCHANGED <<fs, net, pc, last, ncmds, session>>

\* The node task behind the held sender ends: its receiver is dropped.
NodeExit ==
    /\ pc = "loop"
    /\ IsSome(app.node_tx)
    /\ net[Unwrap(app.node_tx)].open
    /\ net' = [net EXCEPT ![Unwrap(app.node_tx)].open = FALSE]
    /\ UNCHANGED <<app, fs, pc, last, ncmds, session>>

Next ==
    \/ WarmStart
    \/ Draw
    \/ DrawError
    \/ Tick
    \/ OtherEvent
    \/ InputEnd
    \/ InputError
    \/ KeyQuit
    \/ KeyPageUp
    \/ KeyPageDown
    \/ KeyEnter
    \/ KeyBackspace
    \/ KeyUp
    \/ KeyDown
    \/ KeyChar
    \/ NodeExit

\* What the operator does in a session given to commands: lines are typed,
\* edited, recalled and submitted; the paging keys, the idle events and the
\* end of the input are left out.
NextCmd ==
    \/ WarmStart
    \/ KeyEnter
    \/ KeyBackspace
    \/ KeyUp
    \/ KeyDown
    \/ KeyChar
    \/ NodeExit

\* The paging keys alone.
NextScroll ==
    \/ KeyPageUp
    \/ KeyPageDown

\* The node lifecycle, every event of the loop.
Spec == InitFor("node") /\ [][Next]_vars
\* Free typing at the prompt, every event of the loop.
SpecPrompt == InitFor("prompt") /\ [][Next]_vars
\* /port.
SpecPort == InitFor("port") /\ [][NextCmd]_vars
\* The connection cache.
SpecConn == InitFor("conn") /\ [][NextCmd]_vars
\* /acceptConnection over a cache rebuilt from the store.
SpecAccept == InitFor("accept") /\ [][NextCmd]_vars
\* Messages.
SpecMsg == InitFor("msg") /\ [][NextCmd]_vars
\* /nick over a store that reads and writes, or fails to.
SpecNick == InitFor("nick") /\ [][NextCmd]_vars
\* The node-backed commands, the node absent or running.
SpecAbsent == InitFor("absent") /\ [][NextCmd]_vars
\* Commands that fail, every event of the loop.
SpecFail == InitFor("fail") /\ [][Next]_vars
\* The log views.
SpecViews == InitFor("views") /\ [][NextCmd]_vars
\* /peers over a store that can or cannot be read.
SpecPeers == InitFor("peers") /\ [][NextCmd]_vars
\* Lines that do not parse.
SpecParse == InitFor("parse") /\ [][NextCmd]_vars
\* The whole loop with /quit at the prompt.
SpecQuit == InitFor("quit") /\ [][Next]_vars
\* The commands that exchange with the node, replies of every kind.
SpecExchange == InitFor("exchange") /\ [][NextCmd]_vars
\* Paging over a view, from either end of the range of content_scroll.
SpecScroll == InitScroll /\ [][NextScroll]_vars


----------------------------------------------------------------------------
(* Properties.                                                             *)

\* The command word and the argument text of a submitted line.
CmdOf(line) == split_command(line)[1]
RestOf(line) == split_command(line)[2]
IsCmd(line, word) == line # <<>> /\ CmdOf(line) = Cmd(word)

\* The step dispatches a line submitted at the prompt.
CommandStep == ncmds' = ncmds + 1

\* The latest two commands dispatched were both the given command and both
\* got a value from the node.
TwiceOk(word) ==
    /\ IsCmd(last.line, word) /\ last.kind = "ok"
    /\ IsCmd(last.prev.line, word) /\ last.prev.kind = "ok"

CountTo(conns, id) == Cardinality({i \in 1..Len(conns) : conns[i].to_id = id})
CountFrom(conns, id) == Cardinality({i \in 1..Len(conns) : conns[i].from_id = id})

\* C1: in every state the render boundary can observe, node_status is
\* Running iff node_tx is present.
C1_StatusMirrorsHandle ==
    (app.node_status.tag = "Running") <=> IsSome(app.node_tx)

\* A second node runs: one was stopped or replaced before.
C1_Witness_Restarted ==
    /\ pc = "loop"
    /\ Len(net) >= 2
    /\ IsSome(app.node_tx)
    /\ app.node_status.tag = "Running"

\* C2: once a node-backed command has failed with "Node channel closed",
\* node_tx is absent and node_status is Stopped.
C2_ClosedChannelDropsHandle ==
    last.kind = "closed" => (app.node_tx = None /\ app.node_status = Stopped)

\* C3: prompt_history never holds two equal entries at adjacent positions.
C3_NoAdjacentDuplicates ==
    \A i \in 1..(Len(app.prompt_history) - 1) :
        app.prompt_history[i] # app.prompt_history[i + 1]

\* Two lines were submitted and the history holds one: the same line twice.
C3_Witness_SameLineTwice ==
    ncmds >= 2 /\ Len(app.prompt_history) = 1

\* C4: when prompt_history_idx is Some(i), i < len(prompt_history) and
\* prompt_input = prompt_history[i]; a character, a Backspace and an Enter on
\* a non-empty buffer leave prompt_history_idx = None.
C4_BrowsingMirrorsHistory ==
    /\ [](IsSome(app.prompt_history_idx) =>
            /\ Unwrap(app.prompt_history_idx) \in 0..(Len(app.prompt_history) - 1)
            /\ app.prompt_input = app.prompt_history[Unwrap(app.prompt_history_idx) + 1])
    /\ [][(KeyChar \/ KeyBackspace \/ (KeyEnter /\ trim(app.prompt_input) # <<>>))
            => app'.prompt_history_idx = None]_vars

\* The operator has gone up to the oldest of several entries.
C4_Witness_BrowsingOldest ==
    /\ Len(app.prompt_history) >= 2
    /\ app.prompt_history_idx = Some(0)
    /\ app.prompt_input = app.prompt_history[1]

\* Up pressed k times, Down pressed k times.
RECURSIVE Ups(_, _)
Ups(a, k) == IF k = 0 THEN a ELSE Ups(scroll_history_up(a), k - 1)
RECURSIVE Downs(_, _)
Downs(a, k) == IF k = 0 THEN a ELSE Downs(scroll_history_down(a), k - 1)
UpsThenDowns(a, k) == Downs(Ups(a, k), k)

\* C5, as the code has it: from Live with any buffer b, Up k times then
\* Down k times (1 <= k <= n) ends in Live with an empty buffer, the rest of
\* the session state as it was.
C5_UpDownEndsLiveEmpty ==
    (pc = "loop" /\ app.prompt_history_idx = None) =>
        \A k \in 1..Len(app.prompt_history) :
            UpsThenDowns(app, k) = [app EXCEPT !.prompt_input = <<>>]

\* A Live state with text in the buffer and two entries to go through.
C5_Witness_LiveWithText ==
    /\ pc = "loop"
    /\ app.prompt_history_idx = None
    /\ app.prompt_input # <<>>
    /\ Len(app.prompt_history) >= 2
    /\ Ups(app, 2).prompt_history_idx = Some(Len(app.prompt_history) - 2)
    /\ UpsThenDowns(app, 2).prompt_input = <<>>

\* C5, as stated: from Live with any buffer b, Up k times then Down k times
\* (1 <= k <= n) ends in Live with prompt_input = b.
C5_UpDownRestoresBuffer ==
    (pc = "loop" /\ app.prompt_history_idx = None) =>
        \A k \in 1..Len(app.prompt_history) :
            /\ UpsThenDowns(app, k).prompt_history_idx = None
            /\ UpsThenDowns(app, k).prompt_input = app.prompt_input

\* The latest two commands were /connection for one target id, both answered.
ConnectionTwice ==
    /\ TwiceOk("connection")
    /\ Unwrap(last.val).to_id = Unwrap(last.prev.val).to_id

\* C6, as the code has it: after /connection twice for one target id, both
\* answered, the second call has left the cache as it found it, and the cache
\* holds one entry to that id if it held none before the first call, else as
\* many as it held.
C6_ConnectionTwiceInsertsOnce ==
    ConnectionTwice =>
        LET id == Unwrap(last.val).to_id
            n0 == CountTo(last.prev.conns0, id)
        IN  /\ app.connections = last.conns0
            /\ CountTo(app.connections, id) = IF n0 = 0 THEN 1 ELSE n0

\* Two different nicks of one user, no entry to that user before.
C6_Witness_TwoNicksOneEntry ==
    /\ ConnectionTwice
    /\ last.line # last.prev.line
    /\ CountTo(last.prev.conns0, Unwrap(last.val).to_id) = 0
    /\ CountTo(app.connections, Unwrap(last.val).to_id) = 1

\* C6, as stated: after /connection twice for one target id, both answered,
\* the cache holds exactly one entry to that id and the second call has left
\* the cache as it found it.
C6_ConnectionTwiceExactlyOne ==
    ConnectionTwice =>
        /\ app.connections = last.conns0
        /\ CountTo(app.connections, Unwrap(last.val).to_id) = 1

\* The latest two commands were /acceptConnection for one fromId, both answered.
AcceptTwice ==
    /\ TwiceOk("acceptConnection")
    /\ Unwrap(last.val).from_id = Unwrap(last.prev.val).from_id

\* The first entry of the cache that comes from id.
FirstFrom(conns, id) ==
    conns[CHOOSE i \in 1..Len(conns) :
              conns[i].from_id = id /\ \A j \in 1..(i - 1) : conns[j].from_id # id]

\* C7, as the code has it: after /acceptConnection twice for one fromId,
\* both answered, the first cache entry from that id is the connection of the
\* latest reply, and the cache holds one entry from that id if it held none
\* before the first call, else as many as it held.
C7_AcceptTwiceUpsertsFirst ==
    AcceptTwice =>
        LET id == Unwrap(last.val).from_id
            n0 == CountFrom(last.prev.conns0, id)
        IN  /\ CountFrom(app.connections, id) = IF n0 = 0 THEN 1 ELSE n0
            /\ FirstFrom(app.connections, id) = Unwrap(last.val)

\* Two different replies for one fromId, no entry from it before.
C7_Witness_LatestReplyKept ==
    /\ AcceptTwice
    /\ Unwrap(last.val) # Unwrap(last.prev.val)
    /\ CountFrom(last.prev.conns0, Unwrap(last.val).from_id) = 0
    /\ CountFrom(app.connections, Unwrap(last.val).from_id) = 1

\* C7, as stated: after /acceptConnection twice for one fromId, both
\* answered, the cache holds exactly one entry from that id, and it is the
\* connection of the latest reply.
C7_AcceptTwiceExactlyOne ==
    AcceptTwice =>
        LET id == Unwrap(last.val).from_id
        IN  /\ CountFrom(app.connections, id) = 1
            /\ \A i \in 1..Len(app.connections) :
                   app.connections[i].from_id = id => app.connections[i] = Unwrap(last.val)

\* /user is dispatched while node_tx is absent: the view, the node and the caches.
UserWithoutNode ==
    CommandStep /\ IsCmd(last'.line, "user") /\ app.node_tx = None

UserWithoutNodeFrame ==
    /\ app'.content_lines = <<NotRunningLine>>
    /\ last'.nsent = 0
    /\ net' = net
    /\ app'.users = app.users
    /\ app'.connections = app.connections
    /\ app'.messages = app.messages
    /\ app'.peers = app.peers

\* C8, as the code has it: /user with node_tx absent shows the not-running
\* view, submits nothing, leaves users, connections, messages and peers as
\* they were, and prompt_history gains the line unless it is its last entry.
C8_UserWithoutNodeKeepsCaches ==
    [][UserWithoutNode =>
         /\ UserWithoutNodeFrame
         /\ app'.prompt_history =
                IF history_last(app) = Some(last'.line)
                THEN app.prompt_history
                ELSE Append(app.prompt_history, last'.line)]_vars

\* /user was answered with the not-running view.
C8_Witness_UserNotRunning ==
    /\ ncmds >= 1
    /\ last.line = Line(<<"user">>)
    /\ last.kind = "no_node"
    /\ app.content_lines = <<NotRunningLine>>
    /\ app.node_tx = None

\* C8, as stated: /user with node_tx absent shows the not-running view,
\* submits nothing, and leaves the caches and prompt_history unchanged.
C8_UserWithoutNodeKeepsHistory ==
    [][UserWithoutNode =>
         /\ UserWithoutNodeFrame
         /\ app'.prompt_history = app.prompt_history]_vars

\* A decimal integer in [1, 65535].
IsPortNumber(arg) ==
    /\ arg # <<>>
    /\ \A i \in 1..Len(arg) : arg[i] \in DOMAIN DigitVal
    /\ DecimalValue(arg, 0) \in 1..U16Max

\* C9: /port with an argument that is no integer in [1, 65535] leaves
\* listen_port, node_tx and node_status unchanged, submits no Shutdown and
\* attempts no node start.
C9_InvalidPortRejected ==
    [][(CommandStep /\ IsCmd(last'.line, "port")
          /\ trim(RestOf(last'.line)) # <<>>
          /\ ~IsPortNumber(trim(RestOf(last'.line))))
         => /\ app'.listen_port = app.listen_port
            /\ app'.node_tx = app.node_tx
            /\ app'.node_status = app.node_status
            /\ net' = net
            /\ last'.nsent = 0
            /\ \A i \in (Len(app.events) + 1)..Len(app'.events) :
                   Head(app'.events[i]) # "[NODE] "]_vars

\* /port 70000 then /port 0, both rejected, the node running on its port.
C9_Witness_TwoRejected ==
    /\ last.prev.line = <<"/", "port", " ", "7", "0", "0", "0", "0">>
    /\ last.prev.kind = "parse_err"
    /\ last.line = Line(<<"port", "0">>)
    /\ last.kind = "parse_err"
    /\ IsSome(app.node_tx)
    /\ app.listen_port = DefaultPort

\* Somebody in the store bears the nick.
Bears(f, nick) ==
    \/ IsSome(f.local) /\ NameIs(Unwrap(f.local).name, nick)
    \/ \E i \in 1..Len(f.known) : NameIs(f.known[i].name, nick)

\* The nick of a complete /message or /messagePlugin line.
NickOf(line) == trim(splitn(2, RestOf(line))[1])
IsMessageLine(line) ==
    \/ IsCmd(line, "message") /\ Len(splitn(2, RestOf(line))) = 2
    \/ IsCmd(line, "messagePlugin") /\ Len(splitn(3, RestOf(line))) = 3

\* C10: /message and /messagePlugin with a nick nobody bears report that no
\* user was found, submit nothing to the node, running or not, and leave
\* the messages cache unchanged.
C10_UnknownNickSendsNothing ==
    [][(CommandStep /\ IsMessageLine(last'.line) /\ ~Bears(fs, NickOf(last'.line)))
         => /\ app'.content_lines = <<NoUserLine(NickOf(last'.line))>>
            /\ last'.nsent = 0
            /\ net' = net
            /\ app'.messages = app.messages]_vars

\* /message then /messagePlugin to alice, whom nobody knows, the node running.
C10_Witness_UnknownNickNodeRunning ==
    /\ last.prev.line = Line(<<"message", "alice", "hello">>)
    /\ last.prev.kind = "no_user"
    /\ last.line = Line(<<"messagePlugin", "alice", "note", "{x:1}">>)
    /\ last.kind = "no_user"
    /\ IsSome(app.node_tx)
    /\ net[Unwrap(app.node_tx)].open
    /\ app.content_lines = <<NoUserLine(<<"alice">>)>>

\* /stopNode is dispatched while node_tx is present.
StopRunning ==
    CommandStep /\ IsCmd(last'.line, "stopNode") /\ IsSome(app.node_tx)

\* What the step does to the node's channel: Shutdown is appended when the
\* node still receives, and nothing changes when it has gone.
ShutdownSubmitted ==
    LET tx == Unwrap(app.node_tx)
    IN  IF net[tx].open
        THEN net' = [net EXCEPT ![tx].sent = Append(@, [tag |-> "Shutdown"])]
        ELSE net' = net

\* C11: /stopNode with node_tx present submits Shutdown, clears node_tx and
\* sets node_status to Stopped, whether or not the submission succeeds; a
\* /user that follows the stop shows the node-not-running line and submits
\* nothing.
C11_StopClearsHandle ==
    [][/\ StopRunning
          => /\ ShutdownSubmitted
             /\ app'.node_tx = None
             /\ app'.node_status = Stopped
             /\ last'.kind = "stopped"
       /\ (CommandStep /\ IsCmd(last'.line, "user") /\ last.kind = "stopped")
          => /\ app'.content_lines = <<NotRunningLine>>
             /\ last'.nsent = 0
             /\ net' = net
             /\ app'.node_tx = None]_vars

\* The node started at boot has ended by itself, /stopNode found its channel
\* closed and still took the handle, and /user then met no node.
C11_Witness_StopAfterExitThenUser ==
    /\ last.prev.line = Line(<<"stopNode">>)
    /\ last.prev.kind = "stopped"
    /\ last.line = Line(<<"user">>)
    /\ last.kind = "no_node"
    /\ Len(net) = 1
    /\ ~net[1].open
    /\ net[1].sent = <<>>
    /\ app.node_tx = None
    /\ app.node_status = Stopped

\* /nick is dispatched.
NickStep == CommandStep /\ IsCmd(last'.line, "nick")

\* The entries of the users cache that are the local user's.
LocalEntries(users) == {i \in 1..Len(users) : users[i].local}

\* C12: right after a /nick that succeeds the store's local user bears the
\* new name, and so does the local entry of the users cache when there is
\* one; when the new name cannot be stored the cache and the store are as
\* they were.
C12_NickKeepsCacheAndStoreEqual ==
    [][NickStep
         => /\ last'.kind = "ok"
               => /\ IsSome(fs'.local)
                  /\ Unwrap(fs'.local).name = Some(trim(RestOf(last'.line)))
                  /\ \A i \in LocalEntries(app'.users) :
                        app'.users[i].name = Unwrap(fs'.local).name
            /\ last'.res = "Err"
               => /\ last'.kind = "io_err"
                  /\ app'.users = app.users
                  /\ fs' = fs]_vars

\* /users filled the cache, /nick neo could not be stored, /nick zed was:
\* the cache's local entry and the store both say zed.
C12_Witness_RenamedAfterFailedWrite ==
    /\ last.prev.line = Line(<<"nick", "neo">>)
    /\ last.prev.kind = "io_err"
    /\ last.line = Line(<<"nick", "zed">>)
    /\ last.kind = "ok"
    /\ LocalEntries(app.users) # {}
    /\ \A i \in LocalEntries(app.users) : app.users[i].name = Some(<<"zed">>)
    /\ Unwrap(fs.local).name = Some(<<"zed">>)

\* The commands that talk to the node.
NodeBacked(line) ==
    \E word \in {"user", "users", "connection", "acceptConnection", "message", "messagePlugin"} :
        IsCmd(line, word)

\* One of them is dispatched while node_tx is absent.
NodeBackedWithoutNode ==
    CommandStep /\ NodeBacked(last'.line) /\ app.node_tx = None

\* The line lacks an argument its command asks for before it looks at node_tx.
ArgsMissing(line) ==
    \/ IsCmd(line, "connection") /\ trim(RestOf(line)) = <<>>
    \/ IsCmd(line, "acceptConnection") /\ Len(splitn(2, RestOf(line))) < 2
    \/ IsCmd(line, "message") /\ Len(splitn(2, RestOf(line))) < 2
    \/ IsCmd(line, "messagePlugin") /\ Len(splitn(3, RestOf(line))) < 3

\* The line names a nick its command resolves before it looks at node_tx, and
\* nobody in the store bears it.
NickUnknown(line, f) ==
    /\ ~ArgsMissing(line)
    /\ \/ IsCmd(line, "connection") /\ ~Bears(f, trim(RestOf(line)))
       \/ IsMessageLine(line) /\ ~Bears(f, NickOf(line))

\* No command reaches a node and none waits for a reply.
NoNodeInteraction ==
    /\ net' = net
    /\ last'.nsent = 0
    /\ last'.res = "Ok"
    /\ pc' = "loop"

\* The listing /users makes from the store: a header with the count, an empty
\* line, then one line per known user.
StoreListing(lines, f) ==
    /\ Len(lines) = 2 + Max(1, Len(f.known))
    /\ lines[1] = <<"Known users  (", Num(Len(f.known)), ")">>
    /\ \A i \in 1..Len(f.known) :
          lines[2 + i] = <<"  ">> \o NameOr(f.known[i].name) \o <<"  ">> \o f.known[i].id

\* C13 as amended: with node_tx absent a node-backed command submits nothing
\* and awaits nothing.  /users lists the known users of the store; a line
\* that lacks an argument gets its usage, a nick nobody bears the
\* no-user-found line; every other line gets the node-not-running line.
C13_AbsentNodeNoInteraction ==
    [][NodeBackedWithoutNode
         => /\ NoNodeInteraction
            /\ IF IsCmd(last'.line, "users")
               THEN /\ StoreListing(app'.content_lines, fs)
                    /\ app'.users = app.users
               ELSE IF ArgsMissing(last'.line)
               THEN last'.kind = "usage" /\ app'.content_lines # <<NotRunningLine>>
               ELSE IF NickUnknown(last'.line, fs)
               THEN app'.content_lines = <<NoUserLine(trim(splitn(2, RestOf(last'.line))[1]))>>
               ELSE app'.content_lines = <<NotRunningLine>>]_vars

\* The node did not start; /users listed the store and /connection bob then
\* met the absent node.
C13_Witness_ListingThenNotRunning ==
    /\ app.node_tx = None
    /\ net = <<>>
    /\ last.prev.line = Line(<<"users">>)
    /\ last.prev.kind = "no_node"
    /\ last.line = Line(<<"connection", "bob">>)
    /\ app.content_lines = <<NotRunningLine>>

\* C13 as stated: with node_tx absent every node-backed command, whatever its
\* arguments, shows the node-not-running line and submits nothing.
C13_AbsentNodeUniformView ==
    [][NodeBackedWithoutNode
         => /\ NoNodeInteraction
            /\ app'.content_lines = <<NotRunningLine>>]_vars

\* The ways a command fails: the channel is closed, the reply slot is
\* dropped, the store cannot be written, the port does not parse, or the node
\* replies with an error.
FailureKinds == {"closed", "dropped", "io_err", "parse_err", "reply_err"}

FailedCommand == CommandStep /\ last'.kind \in FailureKinds

\* The loop goes on: handle_key returned Ok(false) and should_quit is false.
SessionGoesOn == pc' = "loop" /\ ~app'.should_quit

\* run returned Err.
RunFailed == pc \in {"failed", "draw_failed"}

SubmitsToNode == Submitted(net') > Submitted(net)

\* C15: the step that submits a command to the node is the step that takes
\* its reply, so no redraw, tick or input event falls between the two; a
\* command whose reply never comes and whose slot is never closed leaves the
\* loop inside that step, and nothing is drawn or handled from then on.
C15_AwaitInsideDispatch ==
    /\ [](pc = "stalled" => (last.kind = "never" /\ last.nsent = 1))
    /\ [][/\ pc # "stalled"
          /\ SubmitsToNode => (WarmStart \/ KeyEnter)
          /\ (CommandStep /\ last'.nsent > 0)
             => /\ (pc' = "stalled") <=> (last'.kind = "never")
                /\ pc' # "stalled" => last'.kind \in {"ok", "reply_err", "dropped", "stopped",
                                                     "started", "start_failed"}]_vars

\* /users was submitted to the running node, which neither replied nor closed
\* the slot.
C15_Witness_AwaitingForever ==
    /\ pc = "stalled"
    /\ last.line = Line(<<"users">>)
    /\ IsSome(app.node_tx)
    /\ net[Unwrap(app.node_tx)].open
    /\ net[Unwrap(app.node_tx)].sent # <<>>
    /\ net[Unwrap(app.node_tx)].sent[Len(net[Unwrap(app.node_tx)].sent)].tag = "GetUsers"

\* The loop ends on a step that dispatches nothing: a quit keystroke (or the
\* end of the input stream, which run treats alike).
QuitKeyStep == pc = "loop" /\ pc' = "done" /\ ~CommandStep

\* C16: a quit keystroke ends the loop whatever the prompt holds: the buffer
\* is neither submitted nor added to the history, no field of the session
\* state changes, and nothing is submitted to a node.
C16_QuitKeyChangesNothing ==
    [][/\ KeyQuit => QuitKeyStep
       /\ QuitKeyStep
          => /\ app' = app
             /\ net' = net
             /\ fs' = fs
             /\ last' = last]_vars

\* The loop has ended with text in the prompt that was never submitted, the
\* node still running and no Shutdown in its channel.
C16_Witness_QuitWithPendingText ==
    /\ pc = "done"
    /\ ~app.should_quit
    /\ app.prompt_input = <<"/", "a">>
    /\ app.prompt_history = <<>>
    /\ ncmds = 0
    /\ IsSome(app.node_tx)
    /\ net[Unwrap(app.node_tx)].open
    /\ net[Unwrap(app.node_tx)].sent = <<>>

\* The plugin type and the body of a complete /message or /messagePlugin line.
TypeOf(line) ==
    IF IsCmd(line, "message") THEN <<"text">> ELSE trim(splitn(3, RestOf(line))[2])
BodyOf(line) ==
    IF IsCmd(line, "message") THEN trim(splitn(2, RestOf(line))[2])
    ELSE trim(splitn(3, RestOf(line))[3])

\* sub occurs in s.
Contains(s, sub) ==
    \E i \in 1..(Len(s) - Len(sub) + 1) : SubSeq(s, i, i + Len(sub) - 1) = sub

\* A message line is dispatched to a running node, for a nick somebody
\* bears, a local user being in the store.
MessageToNode ==
    /\ CommandStep
    /\ IsMessageLine(last'.line)
    /\ IsSome(app.node_tx)
    /\ net[Unwrap(app.node_tx)].open
    /\ Bears(fs, NickOf(last'.line))
    /\ IsSome(fs.local)

\* C17: with a running node, a nick somebody bears and a local user, a
\* /message or /messagePlugin whose reply succeeds appends one entry to
\* messages, tagged with the type and holding the body, and one [MSG] ->
\* entry to events; when the reply is an error messages is unchanged.
C17_MessageAppendsOneEntry ==
    [][MessageToNode
         => /\ last'.nsent = 1
            /\ last'.kind = "ok"
               => /\ Len(app'.messages) = Len(app.messages) + 1
                  /\ SubSeq(app'.messages, 1, Len(app.messages)) = app.messages
                  /\ Contains(app'.messages[Len(app'.messages)],
                              <<"]  [">> \o TypeOf(last'.line) \o <<"]  ">>)
                  /\ Contains(app'.messages[Len(app'.messages)], BodyOf(last'.line))
                  /\ Len(app'.events) = Len(app.events) + 1
                  /\ SubSeq(app'.events, 1, Len(app.events)) = app.events
                  /\ IsPrefix(<<"[MSG] -> ">> \o NickOf(last'.line),
                              app'.events[Len(app'.events)])
            /\ last'.kind = "reply_err"
               => app'.messages = app.messages]_vars

\* /message bob hello, then /messagePlugin bob note {x:1}: two entries, the
\* first tagged text, the second note.
C17_Witness_TwoMessagesSent ==
    /\ last.prev.line = Line(<<"message", "bob", "hello">>)
    /\ last.prev.kind = "ok"
    /\ last.line = Line(<<"messagePlugin", "bob", "note", "{x:1}">>)
    /\ last.kind = "ok"
    /\ Len(app.messages) = 2
    /\ Contains(app.messages[1], <<"text">>)
    /\ Contains(app.messages[2], <<"note">>)

\* /startNode is dispatched while node_tx is present.
StartWhileRunning ==
    CommandStep /\ IsCmd(last'.line, "startNode") /\ IsSome(app.node_tx)

\* C18: /startNode with node_tx present creates no node and leaves node_tx,
\* node_status, listen_port, the events log and the output log as they were
\* (and the caches, the store and the channels); the view says the node is
\* already running.
C18_StartWhileRunningChangesView ==
    [][StartWhileRunning
         => /\ net' = net
            /\ fs' = fs
            /\ app'.node_tx = app.node_tx
            /\ app'.node_status = app.node_status
            /\ app'.listen_port = app.listen_port
            /\ app'.events = app.events
            /\ app'.output = app.output
            /\ app'.users = app.users
            /\ app'.connections = app.connections
            /\ app'.messages = app.messages
            /\ app'.content_lines = << <<"Node is already running.">> >>
            /\ app'.content_scroll = 0
            /\ pc' = "loop"]_vars

\* /startNode twice on the node started at boot: still one node, the handle
\* the first.
C18_Witness_StartedTwiceOneNode ==
    /\ last.prev.line = Line(<<"startNode">>)
    /\ last.prev.kind = "already"
    /\ last.line = Line(<<"startNode">>)
    /\ last.kind = "already"
    /\ Len(net) = 1
    /\ app.node_tx = Some(1)
    /\ app.content_lines = << <<"Node is already running.">> >>

\* /restartNode is dispatched.
RestartStep == CommandStep /\ IsCmd(last'.line, "restartNode")

\* What the stop half does to the channels that existed: the old channel gets
\* Shutdown when its node still receives, and nothing else changes.
OldChannelsAfterStop ==
    SubSeq(net', 1, Len(net)) =
        IF IsSome(app.node_tx) /\ net[Unwrap(app.node_tx)].open
        THEN [net EXCEPT ![Unwrap(app.node_tx)].sent = Append(@, [tag |-> "Shutdown"])]
        ELSE net

\* C19: /restartNode stops, then starts, and does not roll back: the old
\* channel gets Shutdown and the old handle is dropped; the start is
\* attempted whether or not a node was running; when it fails node_tx is
\* absent and node_status Stopped, when it succeeds node_tx is the handle of
\* a new node and node_status Running.
C19_RestartStopsThenStarts ==
    [][RestartStep
         => /\ OldChannelsAfterStop
            /\ last'.kind \in {"started", "start_failed"}
            /\ last'.kind = "start_failed"
               => /\ Len(net') = Len(net)
                  /\ app'.node_tx = None
                  /\ app'.node_status = Stopped
            /\ last'.kind = "started"
               => /\ Len(net') = Len(net) + 1
                  /\ net'[Len(net')] = [open |-> TRUE, sent |-> <<>>]
                  /\ app'.node_tx = Some(Len(net'))
                  /\ app'.node_tx # app.node_tx
                  /\ app'.node_status = Running(listen_addr(app.listen_port))]_vars

\* The node started at boot got Shutdown from /restartNode, the new node did
\* not start, and the old one is not taken back.
C19_Witness_RestartFailedNoRollback ==
    /\ last.line = Line(<<"restartNode">>)
    /\ last.kind = "start_failed"
    /\ Len(net) = 1
    /\ net[1].open
    /\ net[1].sent = << [tag |-> "Shutdown"] >>
    /\ app.node_tx = None
    /\ app.node_status = Stopped

\* The history after the line has been saved, duplicates of the last entry
\* left out.
HistoryWith(history, input) ==
    IF history # <<>> /\ history[Len(history)] = input THEN history
    ELSE Append(history, input)

\* C20: Enter on a buffer whose trimmed text is not empty, in Live or in
\* Browsing, saves the trimmed text to prompt_history unless it equals the
\* last entry, clears the buffer, sets prompt_history_idx to None and hands
\* the trimmed text to the dispatcher once; nothing is dispatched and
\* prompt_history does not change in any other way.
C20_EnterSavesClearsDispatches ==
    [][/\ CommandStep
          => /\ KeyEnter
             /\ trim(app.prompt_input) # <<>>
             /\ app'.prompt_history = HistoryWith(app.prompt_history, trim(app.prompt_input))
             /\ app'.prompt_input = <<>>
             /\ app'.prompt_history_idx = None
             /\ last'.line = trim(app.prompt_input)
       /\ (/\ pc = "loop"
           /\ app'.prompt_history # app.prompt_history \/ last' # last \/ ncmds' # ncmds)
          => CommandStep
       /\ KeyEnter => CommandStep]_vars

\* The line "/" was submitted twice, retyped or recalled from the history:
\* it was dispatched twice and saved once, and the prompt is empty and Live.
C20_Witness_TrimmedLineFromBrowsing ==
    /\ ncmds = 2
    /\ last.line = <<"/">>
    /\ last.prev.line = <<"/">>
    /\ app.prompt_history = << <<"/">> >>
    /\ app.prompt_input = <<>>
    /\ app.prompt_history_idx = None

\* The heights of the content area that show at least one line.
Heights == {h \in 0..MaxHeight : visible_height(h) >= 1}

\* The window drawn for the view of a, in a content area of height h, holds
\* the last line of the view.
LastLineVisible(a, h) ==
    Len(a.content_lines) <= scroll_offset(a, h) + visible_height(h)

\* A log view is dispatched.
LogViewStep ==
    /\ CommandStep
    /\ \E word \in {"events", "console", "messages"} : IsCmd(last'.line, word)

\* The log or cache the command shows, as it was before the command.
LogShown ==
    CASE IsCmd(last'.line, "events")  -> app.events
      [] IsCmd(last'.line, "console") -> app.output
      [] OTHER                        -> app.messages

\* C21: /events, /console and /messages replace the view with the log or
\* cache and one marker line after it, and leave content_scroll at the
\* bottom: the window drawn next holds the last line of the view.
C21_LogViewsEndAtBottom ==
    [][LogViewStep
         => /\ Len(app'.content_lines) = Len(LogShown) + 1
            /\ SubSeq(app'.content_lines, 1, Len(LogShown)) = LogShown
            /\ \A h \in Heights : LastLineVisible(app', h)]_vars

\* A paging key is handled.
PagingStep == KeyPageUp \/ KeyPageDown

\* C22: whatever content_scroll holds, the offset used to draw the view lies
\* in 0 .. max(0, len(content_lines) - visible height), for every height of
\* the content area; PageUp and PageDown move content_scroll by 10, stopping
\* at 0 and at 65535, touch nothing else and dispatch nothing.
C22_RenderClampsScroll ==
    /\ [](\A h \in 0..MaxHeight :
             scroll_offset(app, h) \in
                0..Max(0, Len(app.content_lines) - visible_height(h)))
    /\ [][PagingStep
            => /\ app'.content_scroll \in
                    {Max(0, app.content_scroll - 10), Min(65535, app.content_scroll + 10)}
               /\ app' = [app EXCEPT !.content_scroll = app'.content_scroll]
               /\ ncmds' = ncmds
               /\ last' = last
               /\ net' = net]_vars

\* PageDown has stopped at the top of the range, far beyond the view; PageUp
\* from there, or PageUp stopping at 0, are the neighbours.
C22_Witness_ScrollSaturatedBeyondView ==
    /\ app.content_scroll = U16Max
    /\ Len(app.content_lines) = MaxView
    /\ scroll_offset(app, MaxHeight) = MaxView - visible_height(MaxHeight)

\* C23: when /peers cannot load the peer list from the store, the peers
\* cache keeps the value it had before the command.
C23_FailedPeersLoadKeepsCache ==
    [][(CommandStep /\ IsCmd(last'.line, "peers") /\ last'.kind = "load_failed")
         => app'.peers = app.peers]_vars

\* A node-backed command is dispatched and its exchange fails: the channel is
\* closed, the reply is an error, or the reply slot is dropped.
ExchangeFails ==
    /\ CommandStep
    /\ NodeBacked(last'.line)
    /\ last'.kind \in {"closed", "reply_err", "dropped"}

\* C24: a node-backed command whose exchange fails leaves the users,
\* connections, messages and peers caches, listen_port, node_tx and
\* node_status (and the store) as they were; the view changes and the logs
\* grow.
C24_FailedExchangeKeepsState ==
    [][ExchangeFails
         => /\ app'.users = app.users
            /\ app'.connections = app.connections
            /\ app'.messages = app.messages
            /\ app'.peers = app.peers
            /\ app'.listen_port = app.listen_port
            /\ app'.node_tx = app.node_tx
            /\ app'.node_status = app.node_status
            /\ fs' = fs
            /\ IsPrefix(app.events, app'.events)
            /\ IsPrefix(app.output, app'.output)
            /\ Len(app'.events) > Len(app.events)]_vars

\* /users filled the users cache, then /connection bob got an error reply:
\* the users are still cached and no connection is.
C24_Witness_ErrorReplyAfterRefresh ==
    /\ last.prev.line = Line(<<"users">>)
    /\ last.prev.kind = "ok"
    /\ last.line = Line(<<"connection", "bob">>)
    /\ last.kind = "reply_err"
    /\ app.users = <<UserL, UserA>>
    /\ app.connections = <<>>
    /\ IsSome(app.node_tx)

\* The command names execute knows.
CommandWords ==
    {"help", "quit", "events", "console", "messages", "startNode", "stopNode",
     "restartNode", "port", "sync", "peers", "nick", "user", "users", "connection",
     "connections", "connectionsPending", "acceptConnection", "declineConnection",
     "message", "messagePlugin"}

\* The line does not parse: its command name is unknown, its port is no
\* number of 1..65535, or a required argument is missing.
ParseError(line) ==
    \/ \A word \in CommandWords : ~IsCmd(line, word)
    \/ IsCmd(line, "port") /\ trim(RestOf(line)) # <<>> /\ ~IsPortNumber(trim(RestOf(line)))
    \/ IsCmd(line, "nick") /\ trim(RestOf(line)) = <<>>
    \/ IsCmd(line, "declineConnection") /\ trim(RestOf(line)) = <<>>
    \/ ArgsMissing(line)

\* C25: a line that does not parse is shown as a view and logged: the
\* command appends at least one entry to the events log.
C25_ParseErrorsAreLogged ==
    [][(CommandStep /\ ParseError(last'.line))
         => /\ app'.content_lines # app.content_lines
            /\ Len(app'.events) > Len(app.events)]_vars


\* The step changes the node handle, the node status, the listen port or a
\* cached collection.
ChangesNodeOrCache ==
    \/ app'.node_tx # app.node_tx
    \/ app'.node_status # app.node_status
    \/ app'.listen_port # app.listen_port
    \/ app'.peers # app.peers
    \/ app'.users # app.users
    \/ app'.connections # app.connections
    \/ app'.messages # app.messages

\* C26: a dispatched command that changes node_tx, node_status, listen_port
\* or one of the caches appends at least one entry to the events log.
C26_StateChangesAreLogged ==
    [][(CommandStep /\ ChangesNodeOrCache) => Len(app'.events) > Len(app.events)]_vars


\* /users is dispatched.
UsersStep == CommandStep /\ IsCmd(last'.line, "users")

\* C27: /users with node_tx present submits GetUsers once (nothing when the
\* node's end of the channel is gone) and on a reply that carries a list makes
\* the users cache that list; with node_tx absent it submits nothing, lists
\* the known users of the store (none when the store cannot be read) and
\* leaves the users cache as it was.
C27_UsersFromNodeOrStore ==
    [][UsersStep
         => IF app.node_tx = None
            THEN /\ net' = net
                 /\ last'.nsent = 0
                 /\ app'.users = app.users
                 /\ \/ StoreListing(app'.content_lines, fs)
                    \/ StoreListing(app'.content_lines, [fs EXCEPT !.known = <<>>])
            ELSE LET tx == Unwrap(app.node_tx)
                 IN  /\ IF net[tx].open
                        THEN /\ last'.nsent = 1
                             /\ Len(net') = Len(net)
                             /\ net'[tx].sent = Append(net[tx].sent, [tag |-> "GetUsers"])
                             /\ \A h \in DOMAIN net : h # tx => net'[h].sent = net[h].sent
                        ELSE net' = net /\ last'.nsent = 0
                     /\ IF last'.kind = "ok"
                        THEN app'.users = Unwrap(last'.val)
                        ELSE app'.users = app.users]_vars

\* Two /users in a row were answered; the second reply was shorter than the
\* first, and the cache holds just the second.
C27_Witness_ShorterReplyReplaces ==
    /\ last.prev.line = Line(<<"users">>)
    /\ last.prev.kind = "ok"
    /\ last.line = Line(<<"users">>)
    /\ last.kind = "ok"
    /\ Len(Unwrap(last.val)) < Len(Unwrap(last.prev.val))
    /\ app.users = Unwrap(last.val)


\* /quit is dispatched from the prompt.
QuitStep == CommandStep /\ IsCmd(last'.line, "quit")

\* C28: the step that dispatches /quit sets should_quit and ends the loop
\* with success; should_quit is set by no other step and is never cleared;
\* after the loop has ended nothing is handled, dispatched or drawn.  The
\* loop also ends with success, should_quit still false, when the input
\* stream ends or a quit key is pressed.
C28_QuitEndsLoopAtOnce ==
    /\ [](app.should_quit => (pc = "done" /\ IsCmd(last.line, "quit")))
    /\ [][/\ pc # "done"
          /\ QuitStep => (app'.should_quit /\ pc' = "done")
          /\ (app'.should_quit /\ ~app.should_quit) => QuitStep
          /\ app.should_quit => app'.should_quit
          /\ pc' = "done" => (QuitStep \/ UNCHANGED <<app, fs, net, last, ncmds>>)]_vars

\* /help, then /quit: the loop has ended with should_quit set.
C28_Witness_QuitAfterHelp ==
    /\ pc = "done"
    /\ app.should_quit
    /\ last.line = Line(<<"quit">>)
    /\ last.prev.line = Line(<<"help">>)
    /\ ncmds = 2


\* /port is dispatched with a number of 1..65535.
PortChangeStep ==
    CommandStep /\ IsCmd(last'.line, "port") /\ IsPortNumber(trim(RestOf(last'.line)))

\* C29: whenever node_status is Running, its address is the listen address
\* of the current listen_port.  A /port with a valid number stores the number
\* and leaves the node either running on the new address or, when the start
\* failed, stopped with no handle.
C29_RunningAddrMatchesPort ==
    /\ [](app.node_status.tag = "Running"
            => app.node_status.addr = listen_addr(app.listen_port))
    /\ [][PortChangeStep
            => /\ app'.listen_port = DecimalValue(trim(RestOf(last'.line)), 0)
               /\ IF last'.kind = "start_failed"
                  THEN /\ app'.node_status = Stopped
                       /\ app'.node_tx = None
                  ELSE /\ app'.node_status = Running(listen_addr(app'.listen_port))
                       /\ IsSome(app'.node_tx)]_vars

\* The node ran on the default port; /port 90 stopped it and the start on the
\* new port failed: the node is stopped and listen_port is 90.
C29_Witness_PortKeptAfterFailedStart ==
    /\ last.line = <<"/", "port", " ", "9", "0">>
    /\ last.kind = "start_failed"
    /\ last.prev.line = Line(<<"startNode">>)
    /\ last.prev.kind = "started"
    /\ app.listen_port = 90
    /\ app.node_status = Stopped
    /\ app.node_tx = None


\* The text begins with the command prefix.
Slashed(text) == text # <<>> /\ Head(text) = "/"

\* C30: prompt_input is empty or begins with '/', every entry of
\* prompt_history begins with '/', and so does every line the prompt hands
\* to the dispatcher.
C30_PromptTextIsSlashed ==
    /\ [](/\ app.prompt_input = <<>> \/ Slashed(app.prompt_input)
          /\ \A i \in 1..Len(app.prompt_history) : Slashed(app.prompt_history[i]))
    /\ [][CommandStep => Slashed(last'.line)]_vars

\* Two lines were entered, "/a" and then "/"; the buffer holds a third text.
C30_Witness_TwoEntriesAndTyping ==
    /\ app.prompt_history = << <<"/", "a">>, <<"/">> >>
    /\ last.line = <<"/">>
    /\ last.prev.line = <<"/", "a">>
    /\ app.prompt_input = <<"/", " ">>
    /\ app.prompt_history_idx = None


\* Shutdown has been submitted on the channel of node instance h.
ShutDown(n, h) == \E i \in 1..Len(n[h].sent) : n[h].sent[i].tag = "Shutdown"

\* C31: on the channel of each node instance the console started, Shutdown
\* occurs at most once and only as the last command submitted; a channel
\* that carries Shutdown is not the one node_tx holds; a step submits only on
\* the channel node_tx held before it, and a channel that carries Shutdown
\* gets nothing more.
C31_ShutdownIsLastOnChannel ==
    /\ [](\A h \in DOMAIN net :
            /\ \A i \in 1..Len(net[h].sent) :
                   net[h].sent[i].tag = "Shutdown" => i = Len(net[h].sent)
            /\ ShutDown(net, h) => app.node_tx # Some(h))
    /\ [][\A h \in DOMAIN net :
            /\ h \in DOMAIN net'
            /\ net'[h].sent # net[h].sent => app.node_tx = Some(h)
            /\ ShutDown(net, h) => net'[h].sent = net[h].sent]_vars

\* The node started at boot got Shutdown from /restartNode; the /users that
\* followed went to the new node's channel.
C31_Witness_UsersAfterRestartOnNewChannel ==
    /\ Len(net) = 2
    /\ net[1].sent = << [tag |-> "Shutdown"] >>
    /\ net[2].sent = << [tag |-> "GetUsers"] >>
    /\ app.node_tx = Some(2)
    /\ last.prev.line = Line(<<"restartNode">>)
    /\ last.line = Line(<<"users">>)

====
